---------------------------- MODULE MCUpsertWriter ----------------------------
(***************************************************************************)
(* The primary-key writer, and the retries of one bucket's batches that    *)
(* both writers leave to executeWriterRequest: one of them is in use, the  *)
(* other rests in an initial state.  Mutations are named by strings.       *)
(***************************************************************************)
EXTENDS UpsertWriter, BucketSequence

Mutation(b, targets, entries) == [bucket |-> b, targets |-> targets, size |-> 1, entries |-> entries]

\* Two full updates and a partial one, which must not share a request with them; the
\* second adds the row before and the row after to the changelog.
ThreeMutations == [u1 |-> Mutation(1, {}, 1), u2 |-> Mutation(1, {}, 2), p1 |-> Mutation(1, {0, 2}, 1)]

\* Batches of several mutations before a Close, and every call of the interface.
TwoScenarios == {{"u1", "u2", "p1", "close1"}, {"u1", "p1", "flush", "close1", "close2"}}

-----------------------------------------------------------------------------
(* One part at a time. *)

VARIABLE which    \* the part that is in use

writeVars == <<which, vars, sequenceVars>>

WritesInit ==
    /\ which \in {"upserts", "batches"} /\ Init /\ SequenceInit
    /\ which = "batches" => pc["flush"] = "start"

Upserts == which = "upserts" /\ Next /\ UNCHANGED <<which, sequenceVars>>
Batching == which = "batches" /\ SequenceNext /\ UNCHANGED <<which, vars>>

\* The fairness of both parts, for the part in use.
WritesSpec ==
    /\ WritesInit
    /\ [][Upserts \/ Batching]_writeVars
    /\ WF_vars(which = "upserts" /\ ((\E i \in Items : ItemStep(i)) \/ (\E p \in Barriers : BarrierStep(p))))
    /\ WF_vars(which = "upserts" /\ LoopStep)
    /\ WF_vars(which = "upserts" /\ \E e \in w.running : ExecuteStep(e))
    /\ WF_sequenceVars(which = "batches" /\ LoopOrAttemptStep)
=============================================================================
