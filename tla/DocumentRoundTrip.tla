-------------------------- MODULE DocumentRoundTrip --------------------------
(***************************************************************************)
(* A document is written, and the file is read by the same program, with   *)
(* the same ProgressCallback, which another thread may poll meanwhile.     *)
(***************************************************************************)
EXTENDS WriteDocument, Integers, Sequences

VARIABLES
  rpc, at, version, section, info, recs, slices, reading, results

R == INSTANCE ReadDocument WITH disk <- doc.blocks

reader  == <<rpc, at, version, section, info, recs, slices, reading, results>>
tripVars == <<vars, reader>>

TripInit == Init /\ R!ReadInit

WriteStep == Next /\ UNCHANGED reader

\* Reading starts once the write has returned.
StartRead ==
  /\ pc = "done"
  /\ UNCHANGED vars
  /\ R!BeginRead

unread == <<pc, document, stream, layers>>

ReadStep == UNCHANGED unread /\ R!Reader

ReadTaskStep(k) == k \in DOMAIN reading /\ UNCHANGED unread /\ R!ReadTask(k)

TripNext ==
  \/ WriteStep
  \/ StartRead
  \/ ReadStep
  \/ \E k \in DOMAIN reading : ReadTaskStep(k)

TripSpec == TripInit /\ [][TripNext]_tripVars

FairTripSpec ==
  /\ TripSpec
  /\ WF_tripVars(Writer /\ UNCHANGED reader)
  /\ \A k \in 1..MaxLayers : WF_tripVars(k \in Indices /\ Task(k) /\ UNCHANGED reader)
  /\ WF_tripVars(StartRead)
  /\ WF_tripVars(ReadStep)
  /\ \A k \in 1..MaxLayers : WF_tripVars(ReadTaskStep(k))

-----------------------------------------------------------------------------
\* Reading a written document never takes one part for another, and never
\* finds more than padding between what the records and what the length
\* markers say, whatever lengths the data was compressed to.
ReaderKeepsItsPlace == (rpc # "idle" /\ n # 0) => (R!InPlace /\ rpc # "failed")

\* A read returns the layers that were written, in their order, each with the
\* data of its own record, whatever order the parallel tasks ran in.
ReadReturnsWhatWasWritten ==
  rpc = "done" =>
    /\ Len(recs) = n
    /\ \A k \in Indices : recs[k].layer = k /\ results[k] = k

\* What is written is read to its end, and the callback that was used for the
\* write is complete again by then.
WrittenIsRead == (pc = "done" /\ n # 0) ~> (rpc = "done" /\ IsComplete)

=============================================================================
