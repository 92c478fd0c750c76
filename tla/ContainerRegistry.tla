-------------------------- MODULE ContainerRegistry --------------------------
(***************************************************************************)
(* What the APPContainerManager promises to the threads that call it: one  *)
(* list of containers, on which every call takes effect in a single step   *)
(* and reports what that step did.                                         *)
(***************************************************************************)
EXTENDS Naturals, Sequences, SequencesExt

CONSTANTS Threads, Names, Ids, Outcomes

VARIABLES
  entries,  \* the containers, oldest first
  wants,    \* the add or remove call each thread is in, or Nothing
  outcome   \* how the last call of each thread ended

vars == <<entries, wants, outcome>>

Nothing == <<"nothing">>
Wish == {"add", "remove"} \X Names
Holds(n) == \E k \in DOMAIN entries : entries[k].name = n

Init ==
  /\ entries = <<>>
  /\ wants = [t \in Threads |-> Nothing]
  /\ outcome = [t \in Threads |-> "none"]

Invoke(t) ==
  /\ wants[t] = Nothing
  /\ \E w \in Wish : wants' = [wants EXCEPT ![t] = w]
  /\ UNCHANGED <<entries, outcome>>

Answer(t, o) ==
  /\ wants' = [wants EXCEPT ![t] = Nothing]
  /\ outcome' = [outcome EXCEPT ![t] = o]

\* An add succeeds only for a name nobody holds, with a container younger than all.
AddContainer(t) ==
  \E n \in Names, i \in Ids :
    /\ wants[t] = <<"add", n>>
    /\ ~Holds(n)
    /\ \A k \in DOMAIN entries : entries[k].id < i
    /\ entries' = Append(entries, [name |-> n, id |-> i])
    /\ Answer(t, "ok")

\* A removal that succeeds takes out exactly the container of that name.
RemoveContainer(t) ==
  \E k \in DOMAIN entries :
    /\ wants[t] = <<"remove", entries[k].name>>
    /\ entries' = RemoveAt(entries, k)
    /\ Answer(t, "ok")

\* A call that fails changes nothing, and says that a container does not exist only if so.
Refuse(t) ==
  /\ wants[t] # Nothing
  /\ \E o \in Outcomes \ {"none", "ok"} :
       /\ o \in {"ValueError", "400"} => wants[t][1] = "remove" /\ ~Holds(wants[t][2])
       /\ Answer(t, o)
  /\ UNCHANGED entries

\* A call that only reads ends.
Inspect(t) ==
  /\ wants[t] = Nothing
  /\ \E o \in Outcomes : outcome' = [outcome EXCEPT ![t] = o]
  /\ UNCHANGED <<entries, wants>>

Next == \E t \in Threads : Invoke(t) \/ AddContainer(t) \/ RemoveContainer(t) \/ Refuse(t) \/ Inspect(t)

Spec == Init /\ [][Next]_vars
=============================================================================
