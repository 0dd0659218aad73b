---------------------------- MODULE AgentSessions ----------------------------
(***************************************************************************)
(* The state an agent keeps for a user between turns, one row per agent,   *)
(* address and session. A row also names the person the address was when   *)
(* it was written, and is looked for by both: a row of an earlier person   *)
(* is not found, and stands in the way of a new one.                       *)
(*                                                                         *)
(* One agent and one session of it; calls overlap, a call commits once.    *)
(***************************************************************************)
EXTENDS Integers

CONSTANTS
  Emails,
  Persons,
  States,
  Calls,
  NULL

VARIABLES
  person,  \* address -> the person it is an account of
  row,     \* address -> NULL or its row: the person it was written for and the state
  call,    \* call -> NULL or the PUT or DELETE in progress
  last     \* address -> what the last call of its user that no other overlapped left,
           \* NULL since the row was written by another (history)

vars == <<person, row, call, last>>

Row == [person : Persons \cup {NULL}, state : States]

AgentsAssumption == NULL \notin Row \cup States

TypeOK ==
  /\ person \in [Emails -> Persons]
  /\ row \in [Emails -> Row \cup {NULL}]
  /\ last \in [Emails -> States \cup {NULL}]
  /\ \A c \in Calls : call[c] # NULL =>
       call[c].of \in Emails /\ call[c].put \in States \cup {NULL} /\ call[c].found \in BOOLEAN

---------------------------------------------------------------------------

\* The lookup of GET, PUT and DELETE.
Found(e) == row[e] # NULL /\ row[e].person = person[e]

\* The member of an address is removed and another is added with the address.
Replace(e) ==
  /\ \E p \in Persons \ {person[e]} : person' = [person EXCEPT ![e] = p]
  /\ last' = [last EXCEPT ![e] = NULL]
  /\ call' = [c \in Calls |-> IF call[c] # NULL /\ call[c].of = e
                              THEN [call[c] EXCEPT !.alone = FALSE] ELSE call[c]]
  /\ UNCHANGED row

\* PUT, or DELETE for NULL.
Begin(c, e, put) ==
  /\ call[c] = NULL
  /\ LET others == {d \in Calls : call[d] # NULL /\ call[d].of = e}
     IN  call' = [d \in Calls |->
           IF d = c THEN [of |-> e, put |-> put, as |-> person[e], found |-> Found(e),
                          alone |-> others = {}]
           ELSE IF d \in others THEN [call[d] EXCEPT !.alone = FALSE] ELSE call[d]]
  /\ UNCHANGED <<person, row, last>>

End(c, e, new) ==
  /\ row' = [row EXCEPT ![e] = new]
  /\ last' = [last EXCEPT ![e] = IF call[c].alone THEN call[c].put ELSE NULL]
  /\ call' = [call EXCEPT ![c] = NULL]
  /\ UNCHANGED person

\* A row that was found is changed in place, and must be there.
Update(c) ==
  /\ call[c] # NULL /\ call[c].found /\ call[c].put # NULL
  /\ row[call[c].of] # NULL
  /\ End(c, call[c].of, [row[call[c].of] EXCEPT !.state = call[c].put])

\* Else one is inserted, and the key must be free.
Insert(c) ==
  /\ call[c] # NULL /\ ~call[c].found /\ call[c].put # NULL
  /\ row[call[c].of] = NULL
  /\ End(c, call[c].of, [person |-> call[c].as, state |-> call[c].put])

\* One that was not found is not deleted, which is no error.
Delete(c) ==
  /\ call[c] # NULL /\ call[c].put = NULL
  /\ End(c, call[c].of, IF call[c].found THEN NULL ELSE row[call[c].of])

Fail(c) ==
  /\ call[c] # NULL
  /\ call' = [call EXCEPT ![c] = NULL]
  /\ UNCHANGED <<person, row, last>>

---------------------------------------------------------------------------
Init ==
  /\ person \in [Emails -> Persons]
  /\ row = [e \in Emails |-> NULL]
  /\ call = [c \in Calls |-> NULL]
  /\ last = [e \in Emails |-> NULL]

Next ==
  \/ \E e \in Emails : Replace(e)
  \/ \E c \in Calls :
       \/ \E e \in Emails, put \in States \cup {NULL} : Begin(c, e, put)
       \/ Update(c) \/ Insert(c) \/ Delete(c) \/ Fail(c)

Spec == Init /\ [][Next]_vars

\* What the last undisturbed PUT of an address stored is in the row, and the row is that of the
\* person the address is now, not of one it was before (get_agent_session,
\* upsert_agent_session: the key has no person, the lookup does).
StateIsOwn ==
  \A e \in Emails : last[e] # NULL =>
    row[e] # NULL /\ row[e].person = person[e] /\ row[e].state = last[e]
=============================================================================
