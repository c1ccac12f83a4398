------------------------------- MODULE Registry -------------------------------
(***************************************************************************)
(* What the tracker promises its clients: a list with at most one entry    *)
(* for an address, and to whoever asks the whole list as it was at one     *)
(* moment after the question - one answer to a question, whatever others   *)
(* register, update and delete meanwhile.                                  *)
(***************************************************************************)
CONSTANTS
  Reader,        \* who may ask
  Entry,         \* what may be listed
  Address,       \* the address of each entry
  Own            \* the entries each reader is not interested in

VARIABLES
  list,          \* the entries: a set
  asking,        \* the readers whose question has no answer yet
  answer,        \* the answer each has not read yet: none or one
  known          \* what each has learned

Init ==
  /\ list = {}
  /\ asking = {}
  /\ answer = [r \in Reader |-> {}]
  /\ known = [r \in Reader |-> {}]

Register(e) ==
  /\ \A f \in list : Address[f] # Address[e]
  /\ list' = list \cup {e}
  /\ UNCHANGED <<asking, answer, known>>

Replace(f, e) ==
  /\ f \in list /\ Address[f] = Address[e]
  /\ list' = (list \ {f}) \cup {e}
  /\ UNCHANGED <<asking, answer, known>>

Remove(e) ==
  /\ e \in list
  /\ list' = list \ {e}
  /\ UNCHANGED <<asking, answer, known>>

Ask(r) ==
  /\ r \notin asking /\ answer[r] = {}
  /\ asking' = asking \cup {r}
  /\ UNCHANGED <<list, answer, known>>

Look(r) ==
  /\ r \in asking
  /\ asking' = asking \ {r}
  /\ answer' = [answer EXCEPT ![r] = {list}]
  /\ UNCHANGED <<list, known>>

Learn(r) ==
  /\ answer[r] # {}
  /\ answer' = [answer EXCEPT ![r] = {}]
  /\ known' = [known EXCEPT ![r] = (UNION answer[r]) \ Own[r]]
  /\ UNCHANGED <<list, asking>>

\* A reader that ends forgets what it knows.
Leave(r) ==
  /\ asking' = asking \ {r}
  /\ answer' = [answer EXCEPT ![r] = {}]
  /\ known' = [known EXCEPT ![r] = {}]
  /\ UNCHANGED list

Next ==
  \/ \E e, f \in Entry : Register(e) \/ Replace(f, e) \/ Remove(e)
  \/ \E r \in Reader : Ask(r) \/ Look(r) \/ Learn(r) \/ Leave(r)

Spec == Init /\ [][Next]_<<list, asking, answer, known>>

=============================================================================
