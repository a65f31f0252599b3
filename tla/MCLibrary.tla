----------------------------- MODULE MCLibrary -----------------------------
(***************************************************************************)
(* The building blocks that have no part in each other, each by itself:    *)
(* the initial state says which of them runs.                              *)
(***************************************************************************)
EXTENDS AssignorSpec, SpscRing, BlockingQueue, Histogram, ByteBuffer,
        Messages

VARIABLE subject

everything == <<subject, vars, ringVars, bqVars, histVars, bufferVars, wireVars>>

LibraryInit ==
  /\ subject \in {"assignor", "spsc", "blocking", "histogram", "buffer", "wire"}
  /\ Init /\ RingInit /\ BqInit /\ HistInit
  /\ BufferInit /\ WireInit
  /\ subject # "buffer" => bufferOwner = "pool"

Alone(name, others) == subject = name /\ UNCHANGED <<subject, others>>

LibraryNext ==
  \/ Alone("assignor", <<ringVars, bqVars, histVars, bufferVars, wireVars>>) /\ Next
  \/ Alone("spsc", <<vars, bqVars, histVars, bufferVars, wireVars>>) /\ RingNext
  \/ Alone("blocking", <<vars, ringVars, histVars, bufferVars, wireVars>>) /\ BqNext
  \/ Alone("histogram", <<vars, ringVars, bqVars, bufferVars, wireVars>>) /\ HistNext
  \/ Alone("buffer", <<vars, ringVars, bqVars, histVars, wireVars>>) /\ BufferNext
  \/ Alone("wire", <<vars, ringVars, bqVars, histVars, bufferVars>>) /\ WireNext

LibrarySpec == LibraryInit /\ [][LibraryNext]_everything

TwoTopics == {<<1, 0>>, <<1, 1>>, <<1, 2>>, <<1, 3>>, <<2, 0>>, <<2, 1>>}

\* Below zero, in a slot of two, at the start of a slot of four, out of range.
Edges == {-1, 33, 64, 200}
=============================================================================
