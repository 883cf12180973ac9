--------------------------- MODULE Session_proofs ---------------------------
(***************************************************************************)
(* The invariants of Session, for any connects and queries, any number of  *)
(* rows and any limits.                                                    *)
(***************************************************************************)
EXTENDS Session, TLAPS

-----------------------------------------------------------------------------
(* The inductive invariant *)

Streaming == {"acquiring", "executing", "pulling", "feeding", "closing", "recording"}

\* What the grid g says of the query that it is of, at rec.
RowsOk(rec, g) ==
  /\ g.truncated => g.rows < rec.sent /\ g.shown > 0
  /\ ~g.truncated => g.rows = rec.sent
  /\ rec.pc \in {"acquiring", "executing", "pulling"} => g.shown = g.rows /\ ~g.truncated
  /\ rec.pc = "feeding" => g.shown < g.rows
  /\ rec.pc \in {"closing", "recording", "over"} /\ rec.how # "torn" => g.shown = g.rows
  /\ rec.pc = "closing" /\ g.rows < Rows =>
       g.truncated \/ rec.how \in {"cancelled", "failed", "torn"}
  /\ rec.pc \in {"recording", "over"} /\ g.rows < Rows =>
       \/ g.summary.capped \/ g.summary.cancelled
       \/ rec.how \in {"failed", "refused", "torn"}
  /\ rec.pc = "recording" => ~g.loading
  /\ rec.pc = "over" /\ g.loading => rec.how = "torn"

\* One query at a time, and the grid is its own.
GridOk ==
  /\ \A r \in Query : Active(r) => grid.inFlight
  /\ \A r, s \in Query : Active(r) /\ Active(s) => r = s
  /\ \A r \in Query : run[r].pc \in Streaming => grid.of = r
  /\ \A r \in Query : grid.of = r =>
       run[r].pc \notin {"new", "queued"} /\ RowsOk(run[r], grid)
  /\ \A r \in Query : run[r].pc \in {"new", "queued", "acquiring", "executing"} => run[r].sent = 0
  /\ ~grid.mixed
  /\ grid.loading => grid.of \in Query

\* What a query knows of its session.
LabelOk(rec) ==
  /\ rec.pc # "new" => app.state # Nobody /\ rec.pool # Nobody
  /\ rec.pc \notin {"new", "over"} => rec.pool = app.state \/ rec.replaced
  /\ rec.pc # "over" => rec.entry = Nobody
  /\ rec.pc = "recording" => rec.label # Nobody
  /\ rec.pc \notin {"recording", "over"} => rec.label = Nobody
  /\ rec.label # Nobody => /\ rec.label = rec.pool \/ rec.replaced
                           /\ "history" \in sess[rec.label].made
  /\ rec.pc = "over" =>
       IF rec.entry = Nobody
       THEN \/ rec.how \in {"torn", "refused"}
            \/ (rec.label # Nobody /\ ~HistoryOpen(rec.label))
       ELSE rec.entry = rec.pool \/ rec.replaced
HistOk == \A r \in Query : LabelOk(run[r])

\* A spinner that stays.
SpinOk ==
  \A r \in Query : grid.of = r /\ run[r].pc = "over" /\ grid.loading =>
    Exiting \/ PoolClosing(run[r].pool)

\* What there is of a session, by how far its worker is.
ConnOk ==
  /\ \A k \in Conn : conn[k].pc \in {"new", "waiting"} => sess[k].made = {} /\ sess[k].closed = {}
  /\ \A k \in Conn : conn[k].pc = "opening" =>
       sess[k].made \in {{}, {"adapter", "pool"}} /\ sess[k].closed = {}
  /\ \A k \in Conn : conn[k].cancelled => conn[k].pc = "over"
  /\ \A k \in Conn : conn[k].pc = "closing" =>
       conn[k].closes \in Conn /\ sess[conn[k].closes].made = Resource
  /\ app.session \in Conn => sess[app.session].made = Resource
  /\ app.state \in Conn => sess[app.state].made = Resource
  /\ app.exit = "closing" =>
       /\ app.closes \in Conn /\ sess[app.closes].made = Resource
       /\ app.session = app.closes \/ (app.session \in Conn /\ conn[app.session].late)

IInv == TypeOK /\ GridOk /\ HistOk /\ SpinOk /\ ConnOk /\ SessionsAccounted

-----------------------------------------------------------------------------
(* The initial states *)

LEMMA InitOk ==
  Init => IInv
<1> SUFFICES ASSUME Init PROVE IInv
  OBVIOUS
<1>1. TypeOK
  BY NobodyAssumption, BoundsAssumption
  DEF Init, TypeOK, AppState, ConnState, RunState, GridState, Plain, Connecting
<1>2. GridOk
  BY NobodyAssumption DEF Init, GridOk, Active, Streaming, RowsOk, Plain
<1>3. HistOk
  BY DEF Init, HistOk, LabelOk
<1>4. SpinOk
  BY DEF Init, SpinOk
<1>5. ConnOk
  BY NobodyAssumption DEF Init, ConnOk
<1>6. SessionsAccounted
  BY DEF Init, SessionsAccounted
<1> QED
  BY <1>1, <1>2, <1>3, <1>4, <1>5, <1>6 DEF IInv

-----------------------------------------------------------------------------
(* Steps of a query *)

\* A step of a query leaves the sessions alone.
LEMMA IdleStep ==
  ASSUME ConnOk, SessionsAccounted, Idle
  PROVE  ConnOk' /\ SessionsAccounted'
<1>1. ConnOk'
  BY DEF ConnOk, Idle
<1>2. SessionsAccounted'
  BY DEF SessionsAccounted, Idle, BeingClosed, ClosersOf, Exiting
<1> QED
  BY <1>1, <1>2

\* What a step that takes query r to rec, and the grid to g, has to see to, when
\* the grid is r's already.
LEMMA StreamStep ==
  ASSUME IInv, Idle, NEW r \in Query, run[r].pc \in Streaming,
         NEW rec \in RunState, NEW g \in GridState,
         run' = [run EXCEPT ![r] = rec], grid' = g,
         rec.pc \in Streaming \cup {"over"},
         g.of = r, ~g.mixed, g.shown <= g.rows, rec.pc # "over" => g.inFlight,
         rec.pc \in {"acquiring", "executing"} => rec.sent = 0,
         RowsOk(rec, g), LabelOk(rec),
         rec.pc = "over" /\ g.loading => Exiting \/ PoolClosing(rec.pool)
  PROVE  IInv'
<1>1. TypeOK'
  <2>1. run' \in [Query -> RunState]
    BY DEF IInv, TypeOK
  <2> QED
    BY <2>1 DEF IInv, TypeOK, Idle, Connecting
<1>2. /\ \A s \in Query : s # r => run'[s] = run[s]
      /\ run'[r] = rec
  BY DEF IInv, TypeOK
<1>3. Active(r) /\ grid.of = r /\ \A s \in Query : s # r => ~Active(s)
  BY DEF IInv, GridOk, Active, Streaming
<1>4. GridOk'
  <2>1. \A s \in Query : s # r => ~Active(s)' /\ run'[s].pc \notin Streaming
    BY <1>2, <1>3 DEF Active, Streaming
  <2>2. \A s \in Query : run'[s].pc \in {"new", "queued", "acquiring", "executing"} =>
          run'[s].sent = 0
    BY <1>2 DEF IInv, GridOk, Streaming
  <2>3. run'[r].pc \notin {"new", "queued"}
    BY <1>2 DEF Streaming
  <2> QED
    BY <1>2, <2>1, <2>2, <2>3 DEF GridOk, Active
<1>5. HistOk'
  BY <1>2 DEF IInv, HistOk, LabelOk, HistoryOpen, Idle
<1>6. SpinOk'
  BY <1>2 DEF IInv, SpinOk, Exiting, PoolClosing, BeingClosed, ClosersOf, Idle
<1> QED
  BY <1>1, <1>4, <1>5, <1>6, IdleStep DEF IInv

LEMMA StreamFacts ==
  ASSUME IInv, NEW r \in Query, run[r].pc \in Streaming
  PROVE  /\ run[r] \in RunState /\ grid \in GridState /\ grid.shown <= grid.rows
         /\ grid.of = r /\ grid.inFlight /\ ~grid.mixed
         /\ RowsOk(run[r], grid) /\ LabelOk(run[r])
         /\ run[r].pc \in {"acquiring", "executing"} => run[r].sent = 0
BY DEF IInv, TypeOK, GridOk, HistOk, Active, Streaming

\* A query's record stays one when it gets on.
RunPc == {"new", "queued", "acquiring", "executing", "pulling", "feeding", "closing", "recording",
          "over"}
RunHow == {"none", "complete", "capped", "cancelled", "failed", "torn", "refused"}

LEMMA RunGoesOn ==
  ASSUME NEW rec \in RunState, NEW pc \in RunPc PROVE [rec EXCEPT !.pc = pc] \in RunState
BY DEF RunState, RunPc

LEMMA RunEnds ==
  ASSUME NEW rec \in RunState, NEW pc \in RunPc, NEW how \in RunHow
  PROVE  [rec EXCEPT !.pc = pc, !.how = how] \in RunState
BY DEF RunState, RunPc, RunHow

LEMMA RunGets ==
  ASSUME NEW rec \in RunState, NEW pc \in RunPc, NEW how \in RunHow, NEW sent \in 0..Rows
  PROVE  [rec EXCEPT !.pc = pc, !.how = how, !.sent = sent] \in RunState
BY DEF RunState, RunPc, RunHow

LEMMA RunRecords ==
  ASSUME NEW rec \in RunState, NEW pc \in RunPc, NEW how \in RunHow,
         NEW k \in Conn \cup {Nobody}
  PROVE  [rec EXCEPT !.pc = pc, !.how = how, !.label = k] \in RunState
BY DEF RunState, RunPc, RunHow

LEMMA RunRecorded ==
  ASSUME NEW rec \in RunState, NEW pc \in RunPc, NEW k \in Conn \cup {Nobody}
  PROVE  [rec EXCEPT !.pc = pc, !.entry = k] \in RunState
BY DEF RunState, RunPc

LEMMA AcquiredOk ==
  ASSUME IInv, NEW r \in Query, Acquired(r) PROVE IInv'
<1> DEFINE rec == [run[r] EXCEPT !.pc = "executing"]
           g == grid
<1>1. Idle /\ run' = [run EXCEPT ![r] = rec] /\ grid' = g
  BY DEF Acquired, RunIs
<1>2. run[r].pc \in Streaming
  BY DEF Acquired, Streaming
<1>3. /\ run[r] \in RunState /\ grid \in GridState /\ grid.shown <= grid.rows
      /\ grid.of = r /\ grid.inFlight /\ ~grid.mixed
      /\ RowsOk(run[r], grid) /\ LabelOk(run[r])
      /\ run[r].pc \in {"acquiring", "executing"} => run[r].sent = 0
  BY <1>2, StreamFacts
<1>4. rec \in RunState
  <2>1. /\ run[r] \in RunState /\ "executing" \in RunPc
    BY <1>3 DEF RunPc
  <2> QED
    BY <2>1, RunGoesOn
<1>5. g \in GridState /\ g.shown <= g.rows /\ g.of = r /\ ~g.mixed
  BY <1>3 DEF GridState, RunIs
<1>6. /\ rec.pc \in Streaming \cup {"over"} /\ (rec.pc # "over" => g.inFlight)
      /\ rec.pc \in {"acquiring", "executing"} => rec.sent = 0
      /\ rec.pc = "over" /\ g.loading => Exiting \/ PoolClosing(rec.pool)
  BY <1>3 DEF Acquired, Streaming, RowsOk, GridState, RunState, RunIs
<1>7. RowsOk(rec, g)
  BY <1>3 DEF Acquired, RowsOk, RunState, GridState, RunIs
<1>8. LabelOk(rec)
  BY <1>3 DEF Acquired, LabelOk, RunState, RunIs
<1> HIDE DEF rec, g
<1> QED
  BY <1>1, <1>2, <1>4, <1>5, <1>6, <1>7, <1>8, StreamStep

LEMMA ExecutedOk ==
  ASSUME IInv, NEW r \in Query, Executed(r) PROVE IInv'
<1> DEFINE rec == [run[r] EXCEPT !.pc = "pulling"]
           g == grid
<1>1. Idle /\ run' = [run EXCEPT ![r] = rec] /\ grid' = g
  BY DEF Executed, RunIs
<1>2. run[r].pc \in Streaming
  BY DEF Executed, Streaming
<1>3. /\ run[r] \in RunState /\ grid \in GridState /\ grid.shown <= grid.rows
      /\ grid.of = r /\ grid.inFlight /\ ~grid.mixed
      /\ RowsOk(run[r], grid) /\ LabelOk(run[r])
      /\ run[r].pc \in {"acquiring", "executing"} => run[r].sent = 0
  BY <1>2, StreamFacts
<1>4. rec \in RunState
  <2>1. /\ run[r] \in RunState /\ "pulling" \in RunPc
    BY <1>3 DEF RunPc
  <2> QED
    BY <2>1, RunGoesOn
<1>5. g \in GridState /\ g.shown <= g.rows /\ g.of = r /\ ~g.mixed
  BY <1>3 DEF GridState, RunIs
<1>6. /\ rec.pc \in Streaming \cup {"over"} /\ (rec.pc # "over" => g.inFlight)
      /\ rec.pc \in {"acquiring", "executing"} => rec.sent = 0
      /\ rec.pc = "over" /\ g.loading => Exiting \/ PoolClosing(rec.pool)
  BY <1>3 DEF Executed, Streaming, RowsOk, GridState, RunState, RunIs
<1>7. RowsOk(rec, g)
  BY <1>3 DEF Executed, RowsOk, RunState, GridState, RunIs
<1>8. LabelOk(rec)
  BY <1>3 DEF Executed, LabelOk, RunState, RunIs
<1> HIDE DEF rec, g
<1> QED
  BY <1>1, <1>2, <1>4, <1>5, <1>6, <1>7, <1>8, StreamStep

LEMMA FailsBeforeOk ==
  ASSUME IInv, NEW r \in Query, FailsBefore(r) PROVE IInv'
<1> DEFINE rec == [run[r] EXCEPT !.pc = "over", !.how = "refused"]
           g == [Quiet(grid) EXCEPT !.inFlight = FALSE]
<1>1. Idle /\ run' = [run EXCEPT ![r] = rec] /\ grid' = g
  BY DEF FailsBefore, Over, Quiet
<1>2. run[r].pc \in Streaming
  BY DEF FailsBefore, Streaming
<1>3. /\ run[r] \in RunState /\ grid \in GridState /\ grid.shown <= grid.rows
      /\ grid.of = r /\ grid.inFlight /\ ~grid.mixed
      /\ RowsOk(run[r], grid) /\ LabelOk(run[r])
      /\ run[r].pc \in {"acquiring", "executing"} => run[r].sent = 0
  BY <1>2, StreamFacts
<1>4. rec \in RunState
  <2>1. /\ run[r] \in RunState /\ "over" \in RunPc
        /\ "refused" \in RunHow
    BY <1>3 DEF RunPc, RunHow
  <2> QED
    BY <2>1, RunEnds
<1>5. g \in GridState /\ g.shown <= g.rows /\ g.of = r /\ ~g.mixed
  BY <1>3 DEF GridState, Over, Quiet
<1>6. /\ rec.pc \in Streaming \cup {"over"} /\ (rec.pc # "over" => g.inFlight)
      /\ rec.pc \in {"acquiring", "executing"} => rec.sent = 0
      /\ rec.pc = "over" /\ g.loading => Exiting \/ PoolClosing(rec.pool)
  BY <1>3 DEF FailsBefore, Streaming, RowsOk, GridState, RunState, Over, Quiet
<1>7. RowsOk(rec, g)
  BY <1>3 DEF FailsBefore, RowsOk, RunState, GridState, Over, Quiet
<1>8. LabelOk(rec)
  BY <1>3 DEF FailsBefore, LabelOk, RunState, Over, Quiet
<1> HIDE DEF rec, g
<1> QED
  BY <1>1, <1>2, <1>4, <1>5, <1>6, <1>7, <1>8, StreamStep

LEMMA ExecuteFailsOk ==
  ASSUME IInv, NEW r \in Query, ExecuteFails(r) PROVE IInv'
<1> DEFINE rec == [run[r] EXCEPT !.pc = "recording", !.how = "failed", !.label = app.state]
           g == Quiet(grid)
<1>1. Idle /\ run' = [run EXCEPT ![r] = rec] /\ grid' = g
  BY DEF ExecuteFails, Record, Quiet
<1>2. run[r].pc \in Streaming
  BY DEF ExecuteFails, Streaming
<1>3. /\ run[r] \in RunState /\ grid \in GridState /\ grid.shown <= grid.rows
      /\ grid.of = r /\ grid.inFlight /\ ~grid.mixed
      /\ RowsOk(run[r], grid) /\ LabelOk(run[r])
      /\ run[r].pc \in {"acquiring", "executing"} => run[r].sent = 0
  BY <1>2, StreamFacts
<1>0. app.state \in Conn \cup {Nobody} /\ (app.state \in Conn => "history" \in sess[app.state].made)
  BY DEF IInv, TypeOK, AppState, ConnOk, Resource
<1>4. rec \in RunState
  <2>1. /\ run[r] \in RunState /\ "recording" \in RunPc
        /\ "failed" \in RunHow /\ app.state \in Conn \cup {Nobody}
    BY <1>0, <1>3 DEF RunPc, RunHow
  <2> QED
    BY <2>1, RunRecords
<1>5. g \in GridState /\ g.shown <= g.rows /\ g.of = r /\ ~g.mixed
  BY <1>3 DEF GridState, Record, Quiet
<1>6. /\ rec.pc \in Streaming \cup {"over"} /\ (rec.pc # "over" => g.inFlight)
      /\ rec.pc \in {"acquiring", "executing"} => rec.sent = 0
      /\ rec.pc = "over" /\ g.loading => Exiting \/ PoolClosing(rec.pool)
  BY <1>3 DEF ExecuteFails, Streaming, RowsOk, GridState, RunState, Record, Quiet
<1>7. RowsOk(rec, g)
  BY <1>3 DEF ExecuteFails, RowsOk, RunState, GridState, Record, Quiet
<1>8. LabelOk(rec)
  BY <1>0, <1>3 DEF ExecuteFails, LabelOk, RunState, Record, Quiet
<1> HIDE DEF rec, g
<1> QED
  BY <1>1, <1>2, <1>4, <1>5, <1>6, <1>7, <1>8, StreamStep

LEMMA EndOfRowsOk ==
  ASSUME IInv, NEW r \in Query, EndOfRows(r) PROVE IInv'
<1> DEFINE rec == [run[r] EXCEPT !.pc = "closing", !.how = "complete"]
           g == grid
<1>1. Idle /\ run' = [run EXCEPT ![r] = rec] /\ grid' = g
  BY DEF EndOfRows, Ends
<1>2. run[r].pc \in Streaming
  BY DEF EndOfRows, Streaming
<1>3. /\ run[r] \in RunState /\ grid \in GridState /\ grid.shown <= grid.rows
      /\ grid.of = r /\ grid.inFlight /\ ~grid.mixed
      /\ RowsOk(run[r], grid) /\ LabelOk(run[r])
      /\ run[r].pc \in {"acquiring", "executing"} => run[r].sent = 0
  BY <1>2, StreamFacts
<1>4. rec \in RunState
  <2>1. /\ run[r] \in RunState /\ "closing" \in RunPc
        /\ "complete" \in RunHow
    BY <1>3 DEF RunPc, RunHow
  <2> QED
    BY <2>1, RunEnds
<1>5. g \in GridState /\ g.shown <= g.rows /\ g.of = r /\ ~g.mixed
  BY <1>3 DEF GridState, Ends
<1>6. /\ rec.pc \in Streaming \cup {"over"} /\ (rec.pc # "over" => g.inFlight)
      /\ rec.pc \in {"acquiring", "executing"} => rec.sent = 0
      /\ rec.pc = "over" /\ g.loading => Exiting \/ PoolClosing(rec.pool)
  BY <1>3 DEF EndOfRows, Streaming, RowsOk, GridState, RunState, Ends
<1>7. RowsOk(rec, g)
  BY <1>3 DEF EndOfRows, RowsOk, RunState, GridState, Ends
<1>8. LabelOk(rec)
  BY <1>3 DEF EndOfRows, LabelOk, RunState, Ends
<1> HIDE DEF rec, g
<1> QED
  BY <1>1, <1>2, <1>4, <1>5, <1>6, <1>7, <1>8, StreamStep

LEMMA PullFailsOk ==
  ASSUME IInv, NEW r \in Query, PullFails(r) PROVE IInv'
<1> DEFINE rec == [run[r] EXCEPT !.pc = "closing", !.how = "failed"]
           g == grid
<1>1. Idle /\ run' = [run EXCEPT ![r] = rec] /\ grid' = g
  BY DEF PullFails, Ends
<1>2. run[r].pc \in Streaming
  BY DEF PullFails, Streaming
<1>3. /\ run[r] \in RunState /\ grid \in GridState /\ grid.shown <= grid.rows
      /\ grid.of = r /\ grid.inFlight /\ ~grid.mixed
      /\ RowsOk(run[r], grid) /\ LabelOk(run[r])
      /\ run[r].pc \in {"acquiring", "executing"} => run[r].sent = 0
  BY <1>2, StreamFacts
<1>4. rec \in RunState
  <2>1. /\ run[r] \in RunState /\ "closing" \in RunPc
        /\ "failed" \in RunHow
    BY <1>3 DEF RunPc, RunHow
  <2> QED
    BY <2>1, RunEnds
<1>5. g \in GridState /\ g.shown <= g.rows /\ g.of = r /\ ~g.mixed
  BY <1>3 DEF GridState, Ends
<1>6. /\ rec.pc \in Streaming \cup {"over"} /\ (rec.pc # "over" => g.inFlight)
      /\ rec.pc \in {"acquiring", "executing"} => rec.sent = 0
      /\ rec.pc = "over" /\ g.loading => Exiting \/ PoolClosing(rec.pool)
  BY <1>3 DEF PullFails, Streaming, RowsOk, GridState, RunState, Ends
<1>7. RowsOk(rec, g)
  BY <1>3 DEF PullFails, RowsOk, RunState, GridState, Ends
<1>8. LabelOk(rec)
  BY <1>3 DEF PullFails, LabelOk, RunState, Ends
<1> HIDE DEF rec, g
<1> QED
  BY <1>1, <1>2, <1>4, <1>5, <1>6, <1>7, <1>8, StreamStep

LEMMA PullCancelledOk ==
  ASSUME IInv, NEW r \in Query, PullCancelled(r) PROVE IInv'
<1> DEFINE rec == [run[r] EXCEPT !.pc = "closing", !.how = "cancelled"]
           g == grid
<1>1. Idle /\ run' = [run EXCEPT ![r] = rec] /\ grid' = g
  BY DEF PullCancelled, Ends
<1>2. run[r].pc \in Streaming
  BY DEF PullCancelled, Streaming
<1>3. /\ run[r] \in RunState /\ grid \in GridState /\ grid.shown <= grid.rows
      /\ grid.of = r /\ grid.inFlight /\ ~grid.mixed
      /\ RowsOk(run[r], grid) /\ LabelOk(run[r])
      /\ run[r].pc \in {"acquiring", "executing"} => run[r].sent = 0
  BY <1>2, StreamFacts
<1>4. rec \in RunState
  <2>1. /\ run[r] \in RunState /\ "closing" \in RunPc
        /\ "cancelled" \in RunHow
    BY <1>3 DEF RunPc, RunHow
  <2> QED
    BY <2>1, RunEnds
<1>5. g \in GridState /\ g.shown <= g.rows /\ g.of = r /\ ~g.mixed
  BY <1>3 DEF GridState, Ends
<1>6. /\ rec.pc \in Streaming \cup {"over"} /\ (rec.pc # "over" => g.inFlight)
      /\ rec.pc \in {"acquiring", "executing"} => rec.sent = 0
      /\ rec.pc = "over" /\ g.loading => Exiting \/ PoolClosing(rec.pool)
  BY <1>3 DEF PullCancelled, Streaming, RowsOk, GridState, RunState, Ends
<1>7. RowsOk(rec, g)
  BY <1>3 DEF PullCancelled, RowsOk, RunState, GridState, Ends
<1>8. LabelOk(rec)
  BY <1>3 DEF PullCancelled, LabelOk, RunState, Ends
<1> HIDE DEF rec, g
<1> QED
  BY <1>1, <1>2, <1>4, <1>5, <1>6, <1>7, <1>8, StreamStep

LEMMA TornStreamingOk ==
  ASSUME IInv, NEW r \in Query, TornStreaming(r) PROVE IInv'
<1> DEFINE rec == [run[r] EXCEPT !.pc = "closing", !.how = "torn"]
           g == grid
<1>1. Idle /\ run' = [run EXCEPT ![r] = rec] /\ grid' = g
  BY DEF TornStreaming, Ends
<1>2. run[r].pc \in Streaming
  BY DEF TornStreaming, Streaming
<1>3. /\ run[r] \in RunState /\ grid \in GridState /\ grid.shown <= grid.rows
      /\ grid.of = r /\ grid.inFlight /\ ~grid.mixed
      /\ RowsOk(run[r], grid) /\ LabelOk(run[r])
      /\ run[r].pc \in {"acquiring", "executing"} => run[r].sent = 0
  BY <1>2, StreamFacts
<1>4. rec \in RunState
  <2>1. /\ run[r] \in RunState /\ "closing" \in RunPc
        /\ "torn" \in RunHow
    BY <1>3 DEF RunPc, RunHow
  <2> QED
    BY <2>1, RunEnds
<1>5. g \in GridState /\ g.shown <= g.rows /\ g.of = r /\ ~g.mixed
  BY <1>3 DEF GridState, Ends
<1>6. /\ rec.pc \in Streaming \cup {"over"} /\ (rec.pc # "over" => g.inFlight)
      /\ rec.pc \in {"acquiring", "executing"} => rec.sent = 0
      /\ rec.pc = "over" /\ g.loading => Exiting \/ PoolClosing(rec.pool)
  BY <1>3 DEF TornStreaming, Streaming, RowsOk, GridState, RunState, Ends
<1>7. RowsOk(rec, g)
  BY <1>3 DEF TornStreaming, RowsOk, RunState, GridState, Ends
<1>8. LabelOk(rec)
  BY <1>3 DEF TornStreaming, LabelOk, RunState, Ends
<1> HIDE DEF rec, g
<1> QED
  BY <1>1, <1>2, <1>4, <1>5, <1>6, <1>7, <1>8, StreamStep

LEMMA CloseRunOk ==
  ASSUME IInv, NEW r \in Query, CloseRun(r) PROVE IInv'
<1> DEFINE rec == [run[r] EXCEPT !.pc = "recording", !.how = run[r].how, !.label = app.state]
           g == [Quiet(grid) EXCEPT !.summary = [capped |-> grid.truncated /\ grid.shown > 0,
                                               cancelled |-> run[r].how = "cancelled"]]
<1>1. Idle /\ run' = [run EXCEPT ![r] = rec] /\ grid' = g
  BY DEF CloseRun, Record, Quiet
<1>2. run[r].pc \in Streaming
  BY DEF CloseRun, Streaming
<1>3. /\ run[r] \in RunState /\ grid \in GridState /\ grid.shown <= grid.rows
      /\ grid.of = r /\ grid.inFlight /\ ~grid.mixed
      /\ RowsOk(run[r], grid) /\ LabelOk(run[r])
      /\ run[r].pc \in {"acquiring", "executing"} => run[r].sent = 0
  BY <1>2, StreamFacts
<1>0. app.state \in Conn \cup {Nobody} /\ (app.state \in Conn => "history" \in sess[app.state].made)
  BY DEF IInv, TypeOK, AppState, ConnOk, Resource
<1>4. rec \in RunState
  <2>1. /\ run[r] \in RunState /\ "recording" \in RunPc
        /\ run[r].how \in RunHow /\ app.state \in Conn \cup {Nobody}
    BY <1>0, <1>3 DEF RunState, RunPc, RunHow
  <2> QED
    BY <2>1, RunRecords
<1>5. g \in GridState /\ g.shown <= g.rows /\ g.of = r /\ ~g.mixed
  BY <1>3 DEF GridState, Record, Quiet
<1>6. /\ rec.pc \in Streaming \cup {"over"} /\ (rec.pc # "over" => g.inFlight)
      /\ rec.pc \in {"acquiring", "executing"} => rec.sent = 0
      /\ rec.pc = "over" /\ g.loading => Exiting \/ PoolClosing(rec.pool)
  BY <1>3 DEF CloseRun, Streaming, RowsOk, GridState, RunState, Record, Quiet
<1>7. RowsOk(rec, g)
  BY <1>3 DEF CloseRun, RowsOk, RunState, GridState, Record, Quiet
<1>8. LabelOk(rec)
  BY <1>0, <1>3 DEF CloseRun, LabelOk, RunState, Record, Quiet
<1> HIDE DEF rec, g
<1> QED
  BY <1>1, <1>2, <1>4, <1>5, <1>6, <1>7, <1>8, StreamStep

LEMMA RecordedOk ==
  ASSUME IInv, NEW r \in Query, Recorded(r) PROVE IInv'
<1> DEFINE rec == [run[r] EXCEPT !.pc = "over", !.entry = run[r].label]
           g == [grid EXCEPT !.inFlight = FALSE]
<1>1. Idle /\ run' = [run EXCEPT ![r] = rec] /\ grid' = g
  BY DEF Recorded, HistoryOpen
<1>2. run[r].pc \in Streaming
  BY DEF Recorded, Streaming
<1>3. /\ run[r] \in RunState /\ grid \in GridState /\ grid.shown <= grid.rows
      /\ grid.of = r /\ grid.inFlight /\ ~grid.mixed
      /\ RowsOk(run[r], grid) /\ LabelOk(run[r])
      /\ run[r].pc \in {"acquiring", "executing"} => run[r].sent = 0
  BY <1>2, StreamFacts
<1>4. rec \in RunState
  <2>1. /\ run[r] \in RunState /\ "over" \in RunPc
        /\ run[r].label \in Conn \cup {Nobody}
    BY <1>3 DEF RunState, RunPc
  <2> QED
    BY <2>1, RunRecorded
<1>5. g \in GridState /\ g.shown <= g.rows /\ g.of = r /\ ~g.mixed
  BY <1>3 DEF GridState, HistoryOpen
<1>6. /\ rec.pc \in Streaming \cup {"over"} /\ (rec.pc # "over" => g.inFlight)
      /\ rec.pc \in {"acquiring", "executing"} => rec.sent = 0
      /\ rec.pc = "over" /\ g.loading => Exiting \/ PoolClosing(rec.pool)
  BY <1>3 DEF Recorded, Streaming, RowsOk, GridState, RunState, HistoryOpen
<1>7. RowsOk(rec, g)
  BY <1>3 DEF Recorded, RowsOk, RunState, GridState, HistoryOpen
<1>8. LabelOk(rec)
  BY <1>3 DEF Recorded, LabelOk, RunState, HistoryOpen
<1> HIDE DEF rec, g
<1> QED
  BY <1>1, <1>2, <1>4, <1>5, <1>6, <1>7, <1>8, StreamStep

LEMMA RecordFailsOk ==
  ASSUME IInv, NEW r \in Query, RecordFails(r) PROVE IInv'
<1> DEFINE rec == [run[r] EXCEPT !.pc = "over", !.how = run[r].how]
           g == [Quiet(grid) EXCEPT !.inFlight = FALSE]
<1>1. Idle /\ run' = [run EXCEPT ![r] = rec] /\ grid' = g
  BY DEF RecordFails, Over, Quiet
<1>2. run[r].pc \in Streaming
  BY DEF RecordFails, Streaming
<1>3. /\ run[r] \in RunState /\ grid \in GridState /\ grid.shown <= grid.rows
      /\ grid.of = r /\ grid.inFlight /\ ~grid.mixed
      /\ RowsOk(run[r], grid) /\ LabelOk(run[r])
      /\ run[r].pc \in {"acquiring", "executing"} => run[r].sent = 0
  BY <1>2, StreamFacts
<1>4. rec \in RunState
  <2>1. /\ run[r] \in RunState /\ "over" \in RunPc
        /\ run[r].how \in RunHow
    BY <1>3 DEF RunState, RunPc, RunHow
  <2> QED
    BY <2>1, RunEnds
<1>5. g \in GridState /\ g.shown <= g.rows /\ g.of = r /\ ~g.mixed
  BY <1>3 DEF GridState, Over, Quiet
<1>6. /\ rec.pc \in Streaming \cup {"over"} /\ (rec.pc # "over" => g.inFlight)
      /\ rec.pc \in {"acquiring", "executing"} => rec.sent = 0
      /\ rec.pc = "over" /\ g.loading => Exiting \/ PoolClosing(rec.pool)
  BY <1>3 DEF RecordFails, Streaming, RowsOk, GridState, RunState, Over, Quiet
<1>7. RowsOk(rec, g)
  BY <1>3 DEF RecordFails, RowsOk, RunState, GridState, Over, Quiet
<1>8. LabelOk(rec)
  BY <1>3 DEF RecordFails, LabelOk, RunState, Over, Quiet
<1> HIDE DEF rec, g
<1> QED
  BY <1>1, <1>2, <1>4, <1>5, <1>6, <1>7, <1>8, StreamStep

LEMMA TornLateOk ==
  ASSUME IInv, NEW r \in Query, TornLate(r) PROVE IInv'
<1> DEFINE rec == [run[r] EXCEPT !.pc = "over", !.how = "torn"]
           g == [grid EXCEPT !.inFlight = FALSE]
<1>1. Idle /\ run' = [run EXCEPT ![r] = rec] /\ grid' = g
  BY DEF TornLate, Over
<1>2. run[r].pc \in Streaming
  BY DEF TornLate, Streaming
<1>3. /\ run[r] \in RunState /\ grid \in GridState /\ grid.shown <= grid.rows
      /\ grid.of = r /\ grid.inFlight /\ ~grid.mixed
      /\ RowsOk(run[r], grid) /\ LabelOk(run[r])
      /\ run[r].pc \in {"acquiring", "executing"} => run[r].sent = 0
  BY <1>2, StreamFacts
<1>4. rec \in RunState
  <2>1. /\ run[r] \in RunState /\ "over" \in RunPc
        /\ "torn" \in RunHow
    BY <1>3 DEF RunPc, RunHow
  <2> QED
    BY <2>1, RunEnds
<1>5. g \in GridState /\ g.shown <= g.rows /\ g.of = r /\ ~g.mixed
  BY <1>3 DEF GridState, Over
<1>6. /\ rec.pc \in Streaming \cup {"over"} /\ (rec.pc # "over" => g.inFlight)
      /\ rec.pc \in {"acquiring", "executing"} => rec.sent = 0
      /\ rec.pc = "over" /\ g.loading => Exiting \/ PoolClosing(rec.pool)
  BY <1>3 DEF TornLate, Streaming, RowsOk, GridState, RunState, Over
<1>7. RowsOk(rec, g)
  BY <1>3 DEF TornLate, RowsOk, RunState, GridState, Over
<1>8. LabelOk(rec)
  BY <1>3 DEF TornLate, LabelOk, RunState, Over
<1> HIDE DEF rec, g
<1> QED
  BY <1>1, <1>2, <1>4, <1>5, <1>6, <1>7, <1>8, StreamStep

\* feed() cuts a batch to what the limit leaves room for.
LEMMA FedKept ==
  ASSUME IInv, NEW r \in Query, run[r].pc = "pulling", NEW n \in 1..(Rows - run[r].sent)
  PROVE  \E kept \in 0..n :
           /\ Fed(r, n) \in GridState /\ Fed(r, n).of = r
           /\ Fed(r, n).rows = run[r].sent + kept
           /\ Fed(r, n).shown = run[r].sent + (IF kept = 0 THEN 0 ELSE 1)
           /\ Fed(r, n).truncated <=> kept < n
           /\ ~Fed(r, n).mixed /\ ~Fed(r, n).loading /\ Fed(r, n).inFlight
           /\ kept < n => kept > 0 \/ run[r].sent > 0
<1>1. /\ grid \in GridState /\ grid.of = r /\ ~grid.mixed /\ ~grid.truncated /\ grid.inFlight
      /\ run[r].sent \in 0..Rows /\ grid.rows = run[r].sent /\ grid.shown = run[r].sent
  BY StreamFacts DEF Streaming, RowsOk, RunState
<1>2. limit \in Nat /\ Rows \in Nat
  BY BoundsAssumption DEF IInv, TypeOK
<1>3. grid.shown \in Nat /\ run[r].sent \in Nat /\ n \in Nat /\ n <= Rows
  BY <1>1, <1>2
<1>4. Room \in Nat /\ (Room < n => Room > 0 \/ run[r].sent > 0)
  BY <1>1, <1>2, <1>3 DEF Room
<1> DEFINE kept == IF n <= Room THEN n ELSE Room
           q == Quiet(grid)
           g == [q EXCEPT !.rows = @ + kept, !.shown = @ + (IF kept = 0 THEN 0 ELSE 1),
                          !.truncated = @ \/ kept < n, !.mixed = @ \/ grid.of # r]
<1>5. kept \in 0..n /\ (kept < n => kept > 0 \/ run[r].sent > 0)
  BY <1>3, <1>4
<1>6. Fed(r, n) = g
  BY DEF Fed
<1>7. /\ q \in GridState /\ q.of = r /\ ~q.mixed /\ ~q.truncated /\ q.inFlight /\ ~q.loading
      /\ q.rows = run[r].sent /\ q.shown = run[r].sent
  BY <1>1 DEF Quiet, GridState
<1>8. run[r].sent + kept \in 0..Rows /\ run[r].sent + (IF kept = 0 THEN 0 ELSE 1) \in 0..Rows
  BY <1>1, <1>2, <1>3, <1>5
<1> HIDE DEF kept, q
<1>9. /\ g \in GridState /\ g.of = r /\ ~g.mixed /\ ~g.loading /\ g.inFlight
      /\ g.rows = run[r].sent + kept /\ g.shown = run[r].sent + (IF kept = 0 THEN 0 ELSE 1)
      /\ g.truncated <=> kept < n
  BY <1>1, <1>7, <1>8 DEF GridState
<1> QED
  BY <1>5, <1>6, <1>9

LEMMA BatchOk ==
  ASSUME IInv, NEW r \in Query, Batch(r) PROVE IInv'
<1>0. run[r].pc = "pulling" /\ run[r].pc \in Streaming /\ Idle
  BY DEF Batch, Streaming
<1>1. PICK n \in 1..(Rows - run[r].sent) :
        /\ grid' = Fed(r, n)
        /\ run' = [run EXCEPT ![r].pc = AfterFeed(r, grid'), ![r].how = How(r, grid'),
                              ![r].sent = @ + n]
  BY DEF Batch
<1> DEFINE g == Fed(r, n)
           rec == [run[r] EXCEPT !.pc = AfterFeed(r, g), !.how = How(r, g),
                                 !.sent = run[r].sent + n]
<1>2. PICK kept \in 0..n :
        /\ g \in GridState /\ g.of = r
        /\ g.rows = run[r].sent + kept
        /\ g.shown = run[r].sent + (IF kept = 0 THEN 0 ELSE 1)
        /\ g.truncated <=> kept < n
        /\ ~g.mixed /\ ~g.loading /\ g.inFlight
        /\ kept < n => kept > 0 \/ run[r].sent > 0
  BY <1>0, FedKept
<1>3. run[r] \in RunState /\ LabelOk(run[r]) /\ Rows \in Nat
  BY <1>0, StreamFacts, BoundsAssumption
<1>4. run' = [run EXCEPT ![r] = rec] /\ grid' = g
  BY <1>1
<1> HIDE DEF g
<1>5. AfterFeed(r, g) \in {"pulling", "feeding", "closing"} /\ How(r, g) \in {"capped", "none"}
  BY DEF AfterFeed, How
<1>6. run[r].sent \in 0..Rows /\ n \in Nat /\ kept \in Nat /\ run[r].sent + n \in 0..Rows
  BY <1>3 DEF RunState
<1>7. /\ rec \in RunState /\ rec.pc = AfterFeed(r, g) /\ rec.how = How(r, g)
      /\ rec.sent = run[r].sent + n
  <2>1. rec \in RunState
    <3>1. AfterFeed(r, g) \in RunPc /\ How(r, g) \in RunHow
      BY <1>5 DEF RunPc, RunHow
    <3> QED
      BY <1>3, <1>6, <3>1, RunGets
  <2>2. rec.pc = AfterFeed(r, g) /\ rec.how = How(r, g) /\ rec.sent = run[r].sent + n
    BY <1>3 DEF RunState
  <2> QED
    BY <2>1, <2>2
<1>8. RowsOk(rec, g) /\ g.shown <= g.rows
  BY <1>2, <1>6, <1>7 DEF RowsOk, AfterFeed, How
<1>9. LabelOk(rec)
  BY <1>0, <1>3, <1>5 DEF LabelOk, RunState
<1> HIDE DEF rec
<1> QED
  BY <1>0, <1>2, <1>4, <1>5, <1>7, <1>8, <1>9, StreamStep DEF Streaming

LEMMA FeedMoreOk ==
  ASSUME IInv, NEW r \in Query, FeedMore(r) PROVE IInv'
<1> DEFINE g == [grid EXCEPT !.shown = grid.shown + 1]
           rec == [run[r] EXCEPT !.pc = AfterFeed(r, g), !.how = How(r, g)]
<1>1. run[r].pc = "feeding" /\ Idle /\ run' = [run EXCEPT ![r] = rec] /\ grid' = g
  BY DEF FeedMore
<1>2. run[r].pc \in Streaming
  BY <1>1 DEF Streaming
<1>3. /\ run[r] \in RunState /\ grid \in GridState /\ grid.shown <= grid.rows
      /\ grid.of = r /\ grid.inFlight /\ ~grid.mixed
      /\ RowsOk(run[r], grid) /\ LabelOk(run[r])
  BY <1>2, StreamFacts
<1>4. grid.shown < grid.rows /\ Rows \in Nat
  BY <1>1, <1>3, BoundsAssumption DEF RowsOk
<1>5. /\ g \in GridState /\ g.shown <= g.rows /\ g.of = r /\ ~g.mixed /\ g.inFlight
      /\ g.rows = grid.rows /\ g.truncated = grid.truncated /\ g.shown = grid.shown + 1
  BY <1>3, <1>4 DEF GridState
<1> HIDE DEF g
<1>6. AfterFeed(r, g) \in {"pulling", "feeding", "closing"} /\ How(r, g) \in {"capped", "none"}
  BY DEF AfterFeed, How
<1>7. /\ rec \in RunState /\ rec.pc = AfterFeed(r, g) /\ rec.how = How(r, g)
      /\ rec.sent = run[r].sent
  <2>1. rec \in RunState
    <3>1. AfterFeed(r, g) \in RunPc /\ How(r, g) \in RunHow
      BY <1>6 DEF RunPc, RunHow
    <3> QED
      BY <1>3, <3>1, RunEnds
  <2>2. rec.pc = AfterFeed(r, g) /\ rec.how = How(r, g) /\ rec.sent = run[r].sent
    BY <1>3 DEF RunState
  <2> QED
    BY <2>1, <2>2
<1>8. RowsOk(rec, g)
  BY <1>1, <1>3, <1>4, <1>5, <1>7 DEF RowsOk, AfterFeed, How, GridState, RunState
<1>9. LabelOk(rec)
  BY <1>1, <1>3, <1>6 DEF LabelOk, RunState
<1> HIDE DEF rec
<1> QED
  BY <1>1, <1>2, <1>5, <1>6, <1>7, <1>8, <1>9, StreamStep DEF Streaming

\* A step of a query whose rows the grid does not have.
LEMMA QuietStep ==
  ASSUME IInv, Idle, NEW r \in Query, NEW rec \in RunState, run' = [run EXCEPT ![r] = rec],
         LabelOk(rec)
  PROVE  /\ run' \in [Query -> RunState] /\ HistOk' /\ ConnOk' /\ SessionsAccounted'
         /\ \A s \in Query : s # r => run'[s] = run[s]
         /\ run'[r] = rec
<1>1. run' \in [Query -> RunState] /\ run'[r] = rec /\ \A s \in Query : s # r => run'[s] = run[s]
  BY DEF IInv, TypeOK
<1>2. HistOk'
  BY <1>1 DEF IInv, HistOk, LabelOk, HistoryOpen, Idle
<1> QED
  BY <1>1, <1>2, IdleStep DEF IInv

LEMMA RunQueryOk ==
  ASSUME IInv, NEW r \in Query, RunQuery(r) PROVE IInv'
<1> DEFINE rec == [run[r] EXCEPT !.pc = "queued", !.pool = app.state]
<1>1. /\ Idle /\ run' = [run EXCEPT ![r] = rec] /\ run[r].pc = "new" /\ ~grid.inFlight
      /\ grid' = [grid EXCEPT !.inFlight = TRUE] /\ app.state # Nobody
  BY DEF RunQuery
<1>2. run[r] \in RunState /\ app.state \in Conn \cup {Nobody} /\ LabelOk(run[r])
  BY DEF IInv, TypeOK, AppState, HistOk
<1>3. rec \in RunState /\ rec.pc = "queued" /\ rec.sent = run[r].sent
  BY <1>2 DEF RunState
<1>4. LabelOk(rec)
  BY <1>1, <1>2 DEF LabelOk, RunState
<1> HIDE DEF rec
<1>5. /\ run' \in [Query -> RunState] /\ HistOk' /\ ConnOk' /\ SessionsAccounted'
      /\ run'[r] = rec /\ \A s \in Query : s # r => run'[s] = run[s]
  BY <1>1, <1>3, <1>4, QuietStep
<1>6. /\ grid \in GridState /\ grid' \in GridState /\ grid'.inFlight
      /\ grid' = [grid EXCEPT !.inFlight = TRUE]
      /\ grid'.of = grid.of /\ grid'.loading = grid.loading /\ grid'.mixed = grid.mixed
      /\ grid'.shown = grid.shown /\ grid'.rows = grid.rows
      /\ grid'.truncated = grid.truncated /\ grid'.summary = grid.summary
  BY <1>1 DEF IInv, TypeOK, GridState
<1>7. TypeOK'
  BY <1>1, <1>5, <1>6 DEF IInv, TypeOK, Idle, Connecting
<1>8. grid.of # r /\ \A s \in Query : ~Active(s)
  BY <1>1 DEF IInv, GridOk
<1>9. GridOk'
  <2>1. \A s \in Query : s # r => ~Active(s)'
    BY <1>5, <1>8 DEF Active
  <2>2. \A s \in Query : grid.of = s => RowsOk(run'[s], grid')
    BY <1>5, <1>6, <1>8 DEF IInv, GridOk, RowsOk
  <2>3. \A s \in Query : run'[s].pc \notin Streaming
    BY <1>3, <1>5, <1>8 DEF Active, Streaming
  <2>4. run'[r].sent = 0
    BY <1>1, <1>3, <1>5 DEF IInv, GridOk
  <2>5. \A s \in Query : run'[s].pc \in {"new", "queued", "acquiring", "executing"} =>
          run'[s].sent = 0
    BY <1>5, <2>4 DEF IInv, GridOk
  <2>6. \A s \in Query : grid.of = s => run'[s].pc \notin {"new", "queued"}
    BY <1>5, <1>8 DEF IInv, GridOk
  <2>7. grid'.loading => grid'.of \in Query
    BY <1>6 DEF IInv, GridOk
  <2>8. ~grid'.mixed
    BY <1>6 DEF IInv, GridOk
  <2> QED
    BY <1>6, <2>1, <2>2, <2>3, <2>5, <2>6, <2>7, <2>8 DEF GridOk
<1>10. SpinOk'
  BY <1>1, <1>3, <1>5, <1>6 DEF IInv, SpinOk, Exiting, PoolClosing, BeingClosed, ClosersOf, Idle
<1> QED
  BY <1>5, <1>7, <1>9, <1>10 DEF IInv

LEMMA BeginOk ==
  ASSUME IInv, NEW r \in Query, Begin(r) PROVE IInv'
<1> DEFINE rec == [run[r] EXCEPT !.pc = "acquiring"]
<1>1. /\ Idle /\ run' = [run EXCEPT ![r] = rec] /\ run[r].pc = "queued"
      /\ grid' = [of |-> r, rows |-> 0, shown |-> 0, truncated |-> FALSE, mixed |-> FALSE,
                  loading |-> TRUE, inFlight |-> TRUE, summary |-> Plain]
  BY DEF Begin, RunIs
<1>2. run[r] \in RunState /\ LabelOk(run[r])
  BY DEF IInv, TypeOK, HistOk
<1>3. rec \in RunState /\ rec.pc = "acquiring" /\ rec.sent = run[r].sent
  BY <1>2 DEF RunState
<1>4. LabelOk(rec)
  BY <1>1, <1>2 DEF LabelOk, RunState
<1> HIDE DEF rec
<1>5. /\ run' \in [Query -> RunState] /\ HistOk' /\ ConnOk' /\ SessionsAccounted'
      /\ run'[r] = rec /\ \A s \in Query : s # r => run'[s] = run[s]
  BY <1>1, <1>3, <1>4, QuietStep
<1>6. grid' \in GridState
  BY <1>1, BoundsAssumption DEF GridState, Plain
<1>7. TypeOK'
  BY <1>1, <1>5, <1>6 DEF IInv, TypeOK, Idle, Connecting
<1>8. \A s \in Query : s # r => ~Active(s)
  BY <1>1 DEF IInv, GridOk, Active
<1>9. GridOk'
  <2>1. \A s \in Query : s # r => ~Active(s)' /\ run'[s].pc \notin Streaming
    BY <1>5, <1>8 DEF Active, Streaming
  <2>2. run'[r].sent = 0
    BY <1>1, <1>3, <1>5 DEF IInv, GridOk
  <2>3. \A s \in Query : run'[s].pc \in {"new", "queued", "acquiring", "executing"} =>
          run'[s].sent = 0
    BY <1>5, <2>2 DEF IInv, GridOk
  <2>4. RowsOk(run'[r], grid')
    BY <1>1, <1>3, <1>5, <2>2 DEF RowsOk
  <2> QED
    BY <1>1, <1>3, <1>5, <2>1, <2>3, <2>4 DEF GridOk
<1>10. SpinOk'
  BY <1>1, <1>3, <1>5 DEF SpinOk
<1> QED
  BY <1>5, <1>7, <1>9, <1>10 DEF IInv

LEMMA TornBeforeOk ==
  ASSUME IInv, NEW r \in Query, TornBefore(r) PROVE IInv'
<1> DEFINE rec == [run[r] EXCEPT !.pc = "over", !.how = "torn"]
           g == [grid EXCEPT !.inFlight = FALSE]
<1>1. /\ Idle /\ run' = [run EXCEPT ![r] = rec] /\ grid' = g
      /\ run[r].pc \in {"queued", "acquiring", "executing"}
      /\ Exiting \/ PoolClosing(run[r].pool)
  BY DEF TornBefore, Over
<1>2. run[r] \in RunState /\ LabelOk(run[r]) /\ grid \in GridState /\ grid.shown <= grid.rows
  BY DEF IInv, TypeOK, HistOk
<1>3. /\ rec \in RunState /\ rec.pc = "over" /\ rec.how = "torn" /\ rec.sent = run[r].sent
      /\ rec.pool = run[r].pool
  BY <1>2 DEF RunState
<1>4. LabelOk(rec)
  BY <1>1, <1>2 DEF LabelOk, RunState
<1>5. /\ g \in GridState /\ ~g.inFlight /\ g.of = grid.of /\ g.loading = grid.loading
      /\ g.mixed = grid.mixed /\ g.shown = grid.shown /\ g.rows = grid.rows
      /\ g.truncated = grid.truncated /\ g.summary = grid.summary
  BY <1>2 DEF GridState
<1> HIDE DEF rec, g
<1>6. CASE run[r].pc # "queued"
  <2>1. run[r].pc \in Streaming
    BY <1>1, <1>6 DEF Streaming
  <2>2. grid.of = r /\ ~grid.mixed /\ RowsOk(run[r], grid)
    BY <2>1, StreamFacts
  <2>3. RowsOk(rec, g)
    BY <1>1, <1>3, <1>5, <1>6, <2>2 DEF RowsOk
  <2> QED
    BY <1>1, <1>2, <1>3, <1>4, <1>5, <2>1, <2>2, <2>3, StreamStep
<1>7. CASE run[r].pc = "queued"
  <2>1. /\ run' \in [Query -> RunState] /\ HistOk' /\ ConnOk' /\ SessionsAccounted'
        /\ run'[r] = rec /\ \A s \in Query : s # r => run'[s] = run[s]
    BY <1>1, <1>3, <1>4, QuietStep
  <2>2. TypeOK'
    BY <1>1, <1>2, <1>5, <2>1 DEF IInv, TypeOK, Idle, Connecting
  <2>3. grid.of # r /\ \A s \in Query : s # r => ~Active(s)
    BY <1>7 DEF IInv, GridOk, Active
  <2>4. GridOk'
    <3>1. \A s \in Query : ~Active(s)' /\ run'[s].pc \notin Streaming
      BY <1>3, <2>1, <2>3 DEF Active, Streaming
    <3>2. \A s \in Query : run'[s].pc \in {"new", "queued", "acquiring", "executing"} =>
            run'[s].sent = 0
      BY <1>3, <2>1 DEF IInv, GridOk
    <3>3. \A s \in Query : g.of = s => run'[s].pc \notin {"new", "queued"} /\ RowsOk(run'[s], g)
      BY <1>5, <2>1, <2>3 DEF IInv, GridOk, RowsOk
    <3>4. ~g.mixed /\ (g.loading => g.of \in Query)
      BY <1>5 DEF IInv, GridOk
    <3> QED
      BY <1>1, <3>1, <3>2, <3>3, <3>4 DEF GridOk
  <2>5. SpinOk'
    BY <1>1, <1>5, <2>1, <2>3
    DEF IInv, SpinOk, Exiting, PoolClosing, BeingClosed, ClosersOf, Idle
  <2> QED
    BY <2>1, <2>2, <2>4, <2>5 DEF IInv
<1> QED
  BY <1>6, <1>7

LEMMA QueryWorkerOk ==
  ASSUME IInv, NEW r \in Query, QueryWorker(r) PROVE IInv'
BY RunQueryOk, BeginOk, AcquiredOk, FailsBeforeOk, TornBeforeOk, ExecutedOk, ExecuteFailsOk,
   BatchOk, FeedMoreOk, EndOfRowsOk, PullFailsOk, PullCancelledOk, TornStreamingOk, CloseRunOk,
   RecordedOk, RecordFailsOk, TornLateOk, Zenon DEF QueryWorker

-----------------------------------------------------------------------------
(* Steps of a connect, of the keys and of the end *)

\* A step that takes no query further, and what it has to see to for their sake.
LEMMA OtherStep ==
  ASSUME IInv, grid' = grid, run' \in [Query -> RunState],
         \A r \in Query :
           /\ run'[r].pc = run[r].pc /\ run'[r].pool = run[r].pool /\ run'[r].sent = run[r].sent
           /\ run'[r].how = run[r].how /\ run'[r].label = run[r].label
           /\ run'[r].entry = run[r].entry /\ (run[r].replaced => run'[r].replaced),
         \A k \in Conn : "history" \in sess[k].made =>
           /\ "history" \in sess'[k].made
           /\ "history" \in sess[k].closed => "history" \in sess'[k].closed,
         \/ app'.state = app.state
         \/ app'.state # Nobody /\ \A r \in Query : Active(r) => run'[r].replaced,
         Exiting => Exiting',
         \A k \in Conn : PoolClosing(k) => PoolClosing(k)' \/ Exiting'
  PROVE  GridOk' /\ HistOk' /\ SpinOk'
<1>1. run \in [Query -> RunState]
  BY DEF IInv, TypeOK
<1>2. GridOk'
  <2>1. \A r \in Query : Active(r)' <=> Active(r)
    BY DEF Active
  <2>2. \A r \in Query : RowsOk(run[r], grid) => RowsOk(run'[r], grid)
    BY DEF RowsOk
  <2> QED
    BY <2>1, <2>2 DEF IInv, GridOk
<1>3. HistOk'
  <2> SUFFICES ASSUME NEW r \in Query PROVE LabelOk(run[r])'
    BY DEF HistOk
  <2>1. LabelOk(run[r])
    BY DEF IInv, HistOk
  <2>2. run[r].label \in Conn \cup {Nobody}
    BY <1>1 DEF RunState
  <2>3. run[r].label # Nobody =>
          /\ "history" \in sess'[run[r].label].made
          /\ ~HistoryOpen(run[r].label) => ~HistoryOpen(run[r].label)'
    BY <2>1, <2>2 DEF LabelOk, HistoryOpen
  <2>4. run[r].pc # "new" => app'.state # Nobody
    BY <2>1 DEF LabelOk
  <2>5. run[r].pc \notin {"new", "over"} => run[r].pool = app'.state \/ run'[r].replaced
    BY <2>1 DEF LabelOk, Active
  <2> QED
    BY <2>1, <2>2, <2>3, <2>4, <2>5 DEF LabelOk, HistoryOpen
<1>4. SpinOk'
  <2> SUFFICES ASSUME NEW r \in Query, grid.of = r, run[r].pc = "over", grid.loading
               PROVE  Exiting' \/ PoolClosing(run[r].pool)'
    BY DEF SpinOk
  <2>1. run[r].pool \in Conn
    BY <1>1 DEF IInv, HistOk, LabelOk, RunState
  <2>2. Exiting \/ PoolClosing(run[r].pool)
    BY DEF IInv, SpinOk
  <2> QED
    BY <2>1, <2>2 DEF PoolClosing, BeingClosed, ClosersOf
<1> QED
  BY <1>2, <1>3, <1>4

\* The usual case: the queries are as they were.
LEMMA SameRuns ==
  ASSUME IInv, UNCHANGED <<run, grid>>, app'.state = app.state, Exiting => Exiting',
         \A k \in Conn : "history" \in sess[k].made =>
           /\ "history" \in sess'[k].made
           /\ "history" \in sess[k].closed => "history" \in sess'[k].closed,
         \A k \in Conn : PoolClosing(k) => PoolClosing(k)' \/ Exiting'
  PROVE  GridOk' /\ HistOk' /\ SpinOk'
BY OtherStep DEF IInv, TypeOK

\* A worker goes on, and no session is touched: it was not closing one, and is not now.
LEMMA WorkerStep ==
  ASSUME IInv, NEW k \in Conn, NEW c \in ConnState, UNCHANGED <<sess, run, grid, limit>>,
         conn' = [conn EXCEPT ![k] = c], conn[k].pc # "closing", c.pc # "closing",
         c.closes = conn[k].closes, c.late = conn[k].late, c.cancelled = conn[k].cancelled,
         c.cancelled => c.pc = "over",
         c.pc \in {"new", "waiting"} => conn[k].pc \in {"new", "waiting"},
         c.pc = "opening" => conn[k].pc \in {"waiting", "opening"},
         conn[k].pc = "opening" => c.pc = "opening",
         NEW h \in Conn \cup {Nobody}, app' = [app EXCEPT !.holder = h],
         \A j \in Conn : Connecting(j)' <=> h = j
  PROVE  IInv'
<1>1. /\ app' \in AppState /\ app'.holder = h /\ app'.session = app.session
      /\ app'.state = app.state /\ app'.services = app.services /\ app'.exit = app.exit
      /\ app'.closes = app.closes
  BY DEF IInv, TypeOK, AppState
<1>2. conn' \in [Conn -> ConnState] /\ conn'[k] = c /\ \A j \in Conn : j # k => conn'[j] = conn[j]
  BY DEF IInv, TypeOK
<1>3. TypeOK'
  BY <1>1, <1>2 DEF IInv, TypeOK
<1>4. \A j \in Conn : BeingClosed(j)' <=> BeingClosed(j)
  BY <1>1, <1>2 DEF BeingClosed, ClosersOf
<1>5. GridOk' /\ HistOk' /\ SpinOk'
  BY <1>1, <1>4, SameRuns DEF PoolClosing, Exiting
<1>6. ConnOk'
  BY <1>1, <1>2 DEF IInv, ConnOk
<1>7. SessionsAccounted'
  <2>1. \A j \in Conn : /\ conn'[j].cancelled = conn[j].cancelled /\ conn'[j].late = conn[j].late
                        /\ conn'[j].closes = conn[j].closes
                        /\ conn[j].pc = "opening" => conn'[j].pc = "opening"
                        /\ conn[j].pc = "closing" => conn'[j].pc = "closing"
    BY <1>2
  <2> QED
    BY <1>1, <1>4, <2>1 DEF IInv, SessionsAccounted, Exiting
<1> QED
  BY <1>3, <1>5, <1>6, <1>7 DEF IInv

LEMMA ConnectOk ==
  ASSUME IInv, NEW k \in Conn, Connect(k) PROVE IInv'
<1> DEFINE c == [conn[k] EXCEPT !.pc = "waiting"]
<1>1. /\ conn \in [Conn -> ConnState] /\ app \in AppState
      /\ \A j \in Conn : Connecting(j) <=> app.holder = j
  BY DEF IInv, TypeOK
<1>2. c \in ConnState
  BY <1>1 DEF ConnState
<1>3. /\ conn' = [conn EXCEPT ![k] = c] /\ conn[k].pc = "new"
      /\ UNCHANGED <<app, sess, run, grid, limit>>
  BY DEF Connect, ConnectIs
<1>4. app.holder \in Conn \cup {Nobody} /\ app' = [app EXCEPT !.holder = app.holder]
  BY <1>1, <1>3 DEF AppState
<1>5. \A j \in Conn : Connecting(j)' <=> app.holder = j
  BY <1>1, <1>3 DEF Connecting
<1>6. c.cancelled => c.pc = "over"
  BY <1>1, <1>3 DEF IInv, ConnOk, ConnState
<1>7. /\ c.pc = "waiting" /\ c.closes = conn[k].closes /\ c.late = conn[k].late
      /\ c.cancelled = conn[k].cancelled
  BY <1>1 DEF ConnState
<1> HIDE DEF c
<1> QED
  BY <1>2, <1>3, <1>4, <1>5, <1>6, <1>7, WorkerStep

LEMMA StartOpeningOk ==
  ASSUME IInv, NEW k \in Conn, StartOpening(k) PROVE IInv'
<1> DEFINE c == [conn[k] EXCEPT !.pc = "opening"]
<1>1. /\ conn \in [Conn -> ConnState] /\ app \in AppState
      /\ \A j \in Conn : Connecting(j) <=> app.holder = j
  BY DEF IInv, TypeOK
<1>2. c \in ConnState
  BY <1>1 DEF ConnState
<1>3. /\ conn' = [conn EXCEPT ![k] = c] /\ conn[k].pc = "waiting" /\ app.holder = Nobody
      /\ app' = [app EXCEPT !.holder = k] /\ UNCHANGED <<sess, run, grid, limit>>
  BY DEF StartOpening, ConnectIs
<1>4. \A j \in Conn : Connecting(j)' <=> k = j
  BY <1>1, <1>3, NobodyAssumption DEF Connecting
<1>5. c.cancelled => c.pc = "over"
  BY <1>1, <1>3 DEF IInv, ConnOk, ConnState
<1>6. /\ c.pc = "opening" /\ c.closes = conn[k].closes /\ c.late = conn[k].late
      /\ c.cancelled = conn[k].cancelled
  BY <1>1 DEF ConnState
<1>7. k \in Conn \cup {Nobody}
  OBVIOUS
<1> HIDE DEF c
<1> QED
  BY <1>2, <1>3, <1>4, <1>5, <1>6, <1>7, WorkerStep

LEMMA RefreshedOk ==
  ASSUME IInv, NEW k \in Conn, Refreshed(k) PROVE IInv'
<1> DEFINE c == [conn[k] EXCEPT !.pc = "over"]
<1>1. /\ conn \in [Conn -> ConnState] /\ app \in AppState
      /\ \A j \in Conn : Connecting(j) <=> app.holder = j
  BY DEF IInv, TypeOK
<1>2. c \in ConnState
  BY <1>1 DEF ConnState
<1>3. /\ conn' = [conn EXCEPT ![k] = c] /\ conn[k].pc = "refreshing"
      /\ app' = [app EXCEPT !.holder = Nobody] /\ UNCHANGED <<sess, run, grid, limit>>
  BY DEF Refreshed, ConnectIs
<1>4. \A j \in Conn : Connecting(j)' <=> Nobody = j
  BY <1>1, <1>3, NobodyAssumption DEF Connecting
<1>5. /\ c.pc = "over" /\ c.closes = conn[k].closes /\ c.late = conn[k].late
      /\ c.cancelled = conn[k].cancelled
  BY <1>1 DEF ConnState
<1>6. Nobody \in Conn \cup {Nobody}
  OBVIOUS
<1> HIDE DEF c
<1> QED
  BY <1>2, <1>3, <1>4, <1>5, <1>6, WorkerStep

LEMMA AdapterConnectedOk ==
  ASSUME IInv, NEW k \in Conn, AdapterConnected(k) PROVE IInv'
<1>1. /\ conn[k].pc = "opening" /\ UNCHANGED <<app, conn, run, grid, limit>>
      /\ sess' \in [Conn -> [made : SUBSET Resource, closed : SUBSET Resource]]
      /\ sess'[k].made = {"adapter", "pool"} /\ sess'[k].closed = sess[k].closed
      /\ sess[k].made = {} /\ \A j \in Conn : j # k => sess'[j] = sess[j]
  BY DEF AdapterConnected, IInv, TypeOK, Resource
<1>2. TypeOK'
  BY <1>1 DEF IInv, TypeOK, Connecting
<1>3. GridOk' /\ HistOk' /\ SpinOk'
  BY <1>1, SameRuns DEF Exiting, PoolClosing, BeingClosed, ClosersOf
<1>4. ConnOk'
  <2>1. \A j \in Conn : sess[j].made = Resource => sess'[j] = sess[j]
    BY <1>1 DEF Resource
  <2> QED
    BY <1>1, <2>1 DEF IInv, ConnOk
<1>5. SessionsAccounted'
  BY <1>1 DEF IInv, SessionsAccounted, BeingClosed, ClosersOf, Exiting
<1> QED
  BY <1>2, <1>3, <1>4, <1>5 DEF IInv

LEMMA OpenFailsOk ==
  ASSUME IInv, NEW k \in Conn, OpenFails(k) PROVE IInv'
<1>1. /\ conn[k].pc = "opening" /\ UNCHANGED <<run, grid, limit>>
      /\ sess' \in [Conn -> [made : SUBSET Resource, closed : SUBSET Resource]]
      /\ sess'[k].made = sess[k].made /\ sess'[k].closed = sess[k].made
      /\ \A j \in Conn : j # k => sess'[j] = sess[j]
  BY DEF OpenFails, IInv, TypeOK
<1>2. /\ app' \in AppState /\ app'.holder = Nobody /\ app'.session = app.session
      /\ app'.state = app.state /\ app'.services = app.services /\ app'.exit = app.exit
      /\ app'.closes = app.closes
  BY DEF OpenFails, IInv, TypeOK, AppState
<1>3. /\ conn' \in [Conn -> ConnState] /\ conn'[k].pc = "over"
      /\ conn'[k].closes = conn[k].closes /\ conn'[k].late = conn[k].late
      /\ conn'[k].cancelled = conn[k].cancelled
      /\ \A j \in Conn : j # k => conn'[j] = conn[j]
  BY DEF OpenFails, ConnectIs, IInv, TypeOK, ConnState
<1>4. \A j \in Conn : Connecting(j)' <=> app'.holder = j
  BY <1>1, <1>2, <1>3, NobodyAssumption DEF IInv, TypeOK, Connecting
<1>5. TypeOK'
  BY <1>1, <1>2, <1>3, <1>4 DEF IInv, TypeOK
<1>6. \A j \in Conn : BeingClosed(j)' <=> BeingClosed(j)
  BY <1>1, <1>2, <1>3 DEF BeingClosed, ClosersOf
<1>7. sess[k].closed = {} /\ "history" \notin sess[k].made
  <2>1. sess[k].closed = {} /\ sess[k].made \in {{}, {"adapter", "pool"}}
    BY <1>1 DEF IInv, ConnOk
  <2> QED
    BY <2>1
<1>8. GridOk' /\ HistOk' /\ SpinOk'
  BY <1>1, <1>2, <1>6, <1>7, SameRuns DEF Exiting, PoolClosing
<1>9. ConnOk'
  <2>1. \A j \in Conn : sess'[j].made = sess[j].made
    BY <1>1
  <2>2. \A j \in Conn : conn'[j].late = conn[j].late
    BY <1>3
  <2>3. \A j \in Conn : j # k => conn'[j] = conn[j] /\ sess'[j] = sess[j]
    BY <1>1, <1>3
  <2>4. conn'[k].pc = "over"
    BY <1>3
  <2> QED
    BY <1>2, <2>1, <2>2, <2>3, <2>4 DEF IInv, ConnOk
<1>10. SessionsAccounted'
  <2>1. \A j \in Conn : /\ conn'[j].cancelled = conn[j].cancelled /\ conn'[j].late = conn[j].late
                        /\ conn'[j].closes = conn[j].closes
                        /\ conn[j].pc = "closing" => conn'[j].pc = "closing"
    BY <1>1, <1>3
  <2>2. \A j \in Conn : sess'[j].made # sess'[j].closed => j # k /\ sess[j].made # sess[j].closed
    BY <1>1
  <2>3. \A j \in Conn : j # k => (conn'[j].pc = "opening" <=> conn[j].pc = "opening")
    BY <1>3
  <2> QED
    BY <1>2, <1>6, <2>1, <2>2, <2>3 DEF IInv, SessionsAccounted, Exiting
<1> QED
  BY <1>5, <1>8, <1>9, <1>10 DEF IInv

LEMMA AdoptOk ==
  ASSUME IInv, NEW k \in Conn, Adopt(k) PROVE IInv'
<1>1. /\ conn[k].pc = "opening" /\ UNCHANGED <<grid, limit>>
      /\ sess' \in [Conn -> [made : SUBSET Resource, closed : SUBSET Resource]]
      /\ sess'[k].made = Resource /\ sess'[k].closed = sess[k].closed
      /\ \A j \in Conn : j # k => sess'[j] = sess[j]
  BY DEF Adopt, IInv, TypeOK
<1>2. /\ app' \in AppState /\ app'.holder = app.holder /\ app'.session = k
      /\ app'.state = k /\ app'.exit = app.exit /\ app'.closes = app.closes
      /\ app'.services = IF app.session = Nobody THEN k ELSE app.services
  BY DEF Adopt, IInv, TypeOK, AppState
<1>3. /\ conn' \in [Conn -> ConnState]
      /\ conn'[k].pc = IF app.session = Nobody THEN "refreshing" ELSE "closing"
      /\ conn'[k].closes = app.session /\ conn'[k].late = Exiting
      /\ conn'[k].cancelled = conn[k].cancelled
      /\ \A j \in Conn : j # k => conn'[j] = conn[j]
  <2>1. Exiting \in BOOLEAN /\ app.session \in Conn \cup {Nobody} /\ conn \in [Conn -> ConnState]
    BY DEF Exiting, IInv, TypeOK, AppState
  <2>2. conn' = [conn EXCEPT ![k] =
                  [conn[k] EXCEPT !.pc = IF app.session = Nobody THEN "refreshing" ELSE "closing",
                                  !.closes = app.session, !.late = Exiting]]
    BY DEF Adopt
  <2> QED
    BY <2>1, <2>2 DEF ConnState
<1>4. /\ run' \in [Query -> RunState]
      /\ \A r \in Query :
           /\ run'[r].pc = run[r].pc /\ run'[r].pool = run[r].pool /\ run'[r].sent = run[r].sent
           /\ run'[r].how = run[r].how /\ run'[r].label = run[r].label
           /\ run'[r].entry = run[r].entry /\ (run[r].replaced => run'[r].replaced)
           /\ Active(r) => run'[r].replaced
  <2>1. /\ run \in [Query -> RunState]
        /\ run' = [r \in Query |-> IF Active(r) THEN [run[r] EXCEPT !.replaced = TRUE] ELSE run[r]]
    BY DEF Adopt, IInv, TypeOK
  <2>2. run' \in [Query -> RunState]
    <3>1. ASSUME NEW r \in Query
          PROVE  [run[r] EXCEPT !.replaced = TRUE] \in RunState /\ run[r] \in RunState
      <4>1. run[r] \in RunState
        BY <2>1
      <4> QED
        BY <4>1 DEF RunState
    <3> QED
      BY <2>1, <3>1
  <2>3. ASSUME NEW r \in Query
        PROVE  /\ run'[r].pc = run[r].pc /\ run'[r].pool = run[r].pool /\ run'[r].sent = run[r].sent
               /\ run'[r].how = run[r].how /\ run'[r].label = run[r].label
               /\ run'[r].entry = run[r].entry /\ (run[r].replaced => run'[r].replaced)
               /\ Active(r) => run'[r].replaced
    <3>1. /\ run[r] \in RunState
          /\ run'[r] = IF Active(r) THEN [run[r] EXCEPT !.replaced = TRUE] ELSE run[r]
      BY <2>1
    <3> QED
      BY <3>1 DEF RunState
  <2> QED
    BY <2>2, <2>3
<1>5. \A j \in Conn : Connecting(j)' <=> app'.holder = j
  BY <1>1, <1>2, <1>3 DEF IInv, TypeOK, Connecting
<1>6. TypeOK'
  BY <1>1, <1>2, <1>3, <1>4, <1>5 DEF IInv, TypeOK
<1>7. sess[k].closed = {} /\ ~conn[k].cancelled
  BY <1>1 DEF IInv, ConnOk
<1>8. \A j \in Conn : BeingClosed(j) => BeingClosed(j)'
  BY <1>1, <1>2, <1>3 DEF BeingClosed, ClosersOf
<1>9. GridOk' /\ HistOk' /\ SpinOk'
  <2>1. \A j \in Conn : "history" \in sess[j].made =>
          /\ "history" \in sess'[j].made
          /\ "history" \in sess[j].closed => "history" \in sess'[j].closed
    BY <1>1 DEF Resource
  <2>2. \A j \in Conn : PoolClosing(j) => PoolClosing(j)' \/ Exiting'
    BY <1>1, <1>8 DEF PoolClosing
  <2> QED
    BY <1>1, <1>2, <1>4, <2>1, <2>2, NobodyAssumption, OtherStep DEF Exiting
<1>10. ConnOk'
  <2>1. \A j \in Conn : sess[j].made = Resource => sess'[j].made = Resource
    BY <1>1
  <2>2. app.session # Nobody => app.session \in Conn /\ sess'[app.session].made = Resource
    BY <2>1 DEF IInv, TypeOK, AppState, ConnOk
  <2>3. Exiting' => conn'[k].late
    BY <1>2, <1>3 DEF Exiting
  <2>4. /\ \A j \in Conn : j # k => conn'[j] = conn[j] /\ sess'[j] = sess[j]
        /\ conn'[k].pc \in {"refreshing", "closing"} /\ ~conn'[k].cancelled
    BY <1>1, <1>3, <1>7
  <2>5. \A j \in Conn : conn'[j].pc = "closing" =>
          conn'[j].closes \in Conn /\ sess'[conn'[j].closes].made = Resource
    BY <1>3, <2>1, <2>2, <2>4 DEF IInv, ConnOk
  <2>6. /\ app'.session \in Conn => sess'[app'.session].made = Resource
        /\ app'.state \in Conn => sess'[app'.state].made = Resource
    BY <1>1, <1>2
  <2>7. app'.exit = "closing" =>
          /\ app'.closes \in Conn /\ sess'[app'.closes].made = Resource
          /\ app'.session \in Conn /\ conn'[app'.session].late
    BY <1>2, <2>1, <2>3 DEF IInv, ConnOk, Exiting
  <2> QED
    BY <2>4, <2>5, <2>6, <2>7 DEF IInv, ConnOk
<1>11. SessionsAccounted'
  <2>1. \A s \in Conn : s = app.session => BeingClosed(s)'
    BY <1>3, NobodyAssumption DEF BeingClosed, ClosersOf
  <2>2. \A j \in Conn : j # k => sess'[j] = sess[j] /\ conn'[j] = conn[j]
    BY <1>1, <1>3
  <2>3. ASSUME NEW j \in Conn, sess'[j].made # sess'[j].closed
        PROVE  \/ conn'[j].pc = "opening" \/ j = app'.session \/ BeingClosed(j)'
               \/ conn'[j].cancelled \/ conn'[j].late
               \/ \E i \in Conn : conn'[i].cancelled /\ conn'[i].closes = j
    BY <1>2, <1>7, <1>8, <2>1, <2>2, <2>3, NobodyAssumption DEF IInv, SessionsAccounted
  <2>4. ~Exiting' => app'.services = app'.state \/ \E j \in Conn : conn'[j].pc = "closing"
    BY <1>2, <1>3
  <2> QED
    BY <2>3, <2>4 DEF SessionsAccounted
<1> QED
  BY <1>6, <1>9, <1>10, <1>11 DEF IInv

\* A closer of x gets on.
LEMMA CloseStep ==
  ASSUME IInv, NEW x \in Conn, BeingClosed(x), sess[x].made = Resource, ~AllClosed(x), Closes(x),
         UNCHANGED <<app, conn, run, grid, limit>>
  PROVE  IInv'
<1>1. /\ sess' \in [Conn -> [made : SUBSET Resource, closed : SUBSET Resource]]
      /\ \A j \in Conn : sess'[j].made = sess[j].made /\ sess[j].closed \subseteq sess'[j].closed
      /\ \A j \in Conn : j # x => sess'[j] = sess[j]
  <2>1. NextToClose(x) \in Resource
    BY DEF NextToClose, Resource
  <2> QED
    BY <2>1 DEF Closes, IInv, TypeOK
<1>2. TypeOK'
  BY <1>1 DEF IInv, TypeOK, Connecting
<1>3. GridOk' /\ HistOk' /\ SpinOk'
  BY <1>1, SameRuns DEF Exiting, PoolClosing, BeingClosed, ClosersOf
<1>4. ConnOk'
  <2>1. \A j \in Conn : sess[j].made # Resource => sess'[j] = sess[j]
    BY <1>1
  <2>2. {} # Resource /\ {"adapter", "pool"} # Resource
    BY DEF Resource
  <2> QED
    BY <1>1, <2>1, <2>2 DEF IInv, ConnOk
<1>5. SessionsAccounted'
  BY <1>1 DEF IInv, SessionsAccounted, BeingClosed, ClosersOf, Exiting
<1> QED
  BY <1>2, <1>3, <1>4, <1>5 DEF IInv

LEMMA ClosePreviousOk ==
  ASSUME IInv, NEW k \in Conn, ClosePrevious(k) PROVE IInv'
<1>1. conn[k].closes \in Conn /\ sess[conn[k].closes].made = Resource
  BY DEF ClosePrevious, IInv, ConnOk
<1>2. BeingClosed(conn[k].closes)
  BY <1>1 DEF ClosePrevious, BeingClosed, ClosersOf
<1> QED
  BY <1>1, <1>2, CloseStep DEF ClosePrevious

LEMMA CloseForExitOk ==
  ASSUME IInv, CloseForExit PROVE IInv'
<1>1. app.closes \in Conn /\ sess[app.closes].made = Resource
  BY DEF CloseForExit, IInv, ConnOk
<1>2. BeingClosed(app.closes)
  BY <1>1 DEF CloseForExit, BeingClosed
<1> QED
  BY <1>1, <1>2, CloseStep DEF CloseForExit

LEMMA PublishOk ==
  ASSUME IInv, NEW k \in Conn, Publish(k) PROVE IInv'
<1>1. conn[k].pc = "closing" /\ UNCHANGED <<sess, run, grid, limit>> /\ AllClosed(conn[k].closes)
  BY DEF Publish
<1>2. /\ app' \in AppState /\ app'.holder = app.holder /\ app'.session = app.session
      /\ app'.state = app.state /\ app'.services = app.state /\ app'.exit = app.exit
      /\ app'.closes = app.closes
  BY DEF Publish, IInv, TypeOK, AppState
<1>3. /\ conn' \in [Conn -> ConnState] /\ conn'[k].pc = "refreshing"
      /\ conn'[k].closes = conn[k].closes /\ conn'[k].late = conn[k].late
      /\ conn'[k].cancelled = conn[k].cancelled
      /\ \A j \in Conn : j # k => conn'[j] = conn[j]
  BY DEF Publish, ConnectIs, IInv, TypeOK, ConnState
<1>4. TypeOK'
  BY <1>1, <1>2, <1>3 DEF IInv, TypeOK, Connecting
<1>5. /\ conn[k].closes \in Conn /\ sess[conn[k].closes].made = Resource
      /\ sess[conn[k].closes].closed = Resource
  BY <1>1 DEF IInv, ConnOk, AllClosed
<1>6. \A j \in Conn : BeingClosed(j) => BeingClosed(j)' \/ j = conn[k].closes
  BY <1>1, <1>2, <1>3 DEF BeingClosed, ClosersOf
<1>7. GridOk' /\ HistOk' /\ SpinOk'
  BY <1>1, <1>2, <1>5, <1>6, SameRuns DEF Exiting, PoolClosing, Resource
<1>8. ConnOk'
  BY <1>1, <1>2, <1>3 DEF IInv, ConnOk
<1>9. SessionsAccounted'
  BY <1>1, <1>2, <1>3, <1>5, <1>6 DEF IInv, SessionsAccounted, Exiting
<1> QED
  BY <1>4, <1>7, <1>8, <1>9 DEF IInv

LEMMA ConnectCancelledOk ==
  ASSUME IInv, NEW k \in Conn, ConnectCancelled(k) PROVE IInv'
<1>1. Exiting /\ UNCHANGED <<sess, run, grid, limit>>
  BY DEF ConnectCancelled
<1>2. /\ app' \in AppState /\ app'.holder = IF app.holder = k THEN Nobody ELSE app.holder
      /\ app'.session = app.session
      /\ app'.state = app.state /\ app'.services = app.services /\ app'.exit = app.exit
      /\ app'.closes = app.closes
  BY DEF ConnectCancelled, IInv, TypeOK, AppState
<1>3. /\ conn' \in [Conn -> ConnState] /\ conn'[k].pc = "over" /\ conn'[k].cancelled
      /\ conn'[k].closes = conn[k].closes /\ conn'[k].late = conn[k].late
      /\ \A j \in Conn : j # k => conn'[j] = conn[j]
  <2>1. /\ conn \in [Conn -> ConnState]
        /\ conn' = [conn EXCEPT ![k] = [conn[k] EXCEPT !.pc = "over", !.cancelled = TRUE]]
    BY DEF ConnectCancelled, IInv, TypeOK
  <2> QED
    BY <2>1 DEF ConnState
<1>4. \A j \in Conn : Connecting(j)' <=> app'.holder = j
  BY <1>2, <1>3, NobodyAssumption DEF IInv, TypeOK, Connecting
<1>5. TypeOK'
  BY <1>1, <1>2, <1>3, <1>4 DEF IInv, TypeOK
<1>6. GridOk' /\ HistOk' /\ SpinOk'
  BY <1>1, <1>2, SameRuns DEF Exiting
<1>7. ConnOk'
  BY <1>1, <1>2, <1>3 DEF IInv, ConnOk
<1>8. SessionsAccounted'
  <2>1. \A j \in Conn : BeingClosed(j) => BeingClosed(j)' \/ j = conn[k].closes
    BY <1>1, <1>2, <1>3 DEF BeingClosed, ClosersOf
  <2> QED
    BY <1>1, <1>2, <1>3, <2>1 DEF IInv, SessionsAccounted, Exiting
<1> QED
  BY <1>5, <1>6, <1>7, <1>8 DEF IInv

LEMMA ConnectWorkerOk ==
  ASSUME IInv, NEW k \in Conn, ConnectWorker(k) PROVE IInv'
BY ConnectOk, StartOpeningOk, AdapterConnectedOk, OpenFailsOk, AdoptOk, ClosePreviousOk, PublishOk,
   RefreshedOk, ConnectCancelledOk, Zenon DEF ConnectWorker

LEMMA CancelledRuns ==
  ASSUME IInv, run' = Cancelled
  PROVE  /\ run' \in [Query -> RunState]
         /\ \A r \in Query :
           /\ run'[r].pc = run[r].pc /\ run'[r].pool = run[r].pool /\ run'[r].sent = run[r].sent
           /\ run'[r].how = run[r].how /\ run'[r].label = run[r].label
           /\ run'[r].entry = run[r].entry /\ (run[r].replaced => run'[r].replaced)
<1>1. run \in [Query -> RunState]
  BY DEF IInv, TypeOK
<1>2. run' \in [Query -> RunState]
  <2>1. ASSUME NEW r \in Query
        PROVE  [run[r] EXCEPT !.cancel = TRUE] \in RunState /\ run[r] \in RunState
    <3>1. run[r] \in RunState
      BY <1>1
    <3> QED
      BY <3>1 DEF RunState
  <2> QED
    BY <2>1 DEF Cancelled
<1>3. ASSUME NEW r \in Query
      PROVE  /\ run'[r].pc = run[r].pc /\ run'[r].pool = run[r].pool /\ run'[r].sent = run[r].sent
             /\ run'[r].how = run[r].how /\ run'[r].label = run[r].label
             /\ run'[r].entry = run[r].entry /\ (run[r].replaced => run'[r].replaced)
  <2>1. /\ run[r] \in RunState
        /\ run'[r] = IF HasRun(r) THEN [run[r] EXCEPT !.cancel = TRUE] ELSE run[r]
    BY <1>1 DEF Cancelled
  <2> QED
    BY <2>1 DEF RunState
<1> QED
  BY <1>2, <1>3

LEMMA CancelQueryOk ==
  ASSUME IInv, CancelQuery PROVE IInv'
<1>1. run' = Cancelled /\ UNCHANGED <<app, sess, conn, grid, limit>>
  BY DEF CancelQuery
<1>2. TypeOK'
  BY <1>1, CancelledRuns DEF IInv, TypeOK, Connecting
<1>3. \A k \in Conn : PoolClosing(k) => PoolClosing(k)'
  BY <1>1 DEF PoolClosing, BeingClosed, ClosersOf
<1>4. GridOk' /\ HistOk' /\ SpinOk'
  BY <1>1, <1>3, CancelledRuns, OtherStep DEF Exiting
<1>5. ConnOk' /\ SessionsAccounted'
  BY <1>1, IdleStep DEF IInv, Idle
<1> QED
  BY <1>2, <1>4, <1>5 DEF IInv

LEMMA SetRowLimitOk ==
  ASSUME IInv, SetRowLimit PROVE IInv'
<1>1. limit' \in Limits /\ UNCHANGED <<app, sess, conn, run, grid>>
  BY DEF SetRowLimit
<1>2. TypeOK'
  BY <1>1 DEF IInv, TypeOK, Connecting
<1>3. GridOk' /\ HistOk' /\ SpinOk'
  BY <1>1, SameRuns DEF Exiting, PoolClosing, BeingClosed, ClosersOf
<1>4. ConnOk'
  BY <1>1 DEF IInv, ConnOk
<1>5. SessionsAccounted'
  BY <1>1 DEF IInv, SessionsAccounted, BeingClosed, ClosersOf, Exiting
<1> QED
  BY <1>2, <1>3, <1>4, <1>5 DEF IInv

LEMMA QuitOk ==
  ASSUME IInv, Quit PROVE IInv'
<1>1. /\ run' = Cancelled /\ UNCHANGED <<sess, conn, grid, limit>>
      /\ ~Exiting
  BY DEF Quit
<1>2. /\ app' \in AppState /\ app'.holder = app.holder /\ app'.session = app.session
      /\ app'.state = app.state /\ app'.services = app.services /\ app'.exit = "cancelling"
      /\ app'.closes = app.closes
  BY DEF Quit, IInv, TypeOK, AppState
<1>3. TypeOK'
  BY <1>1, <1>2, CancelledRuns DEF IInv, TypeOK, Connecting
<1>4. GridOk' /\ HistOk' /\ SpinOk'
  BY <1>1, <1>2, CancelledRuns, OtherStep DEF Exiting
<1>5. ConnOk'
  BY <1>1, <1>2 DEF IInv, ConnOk
<1>6. SessionsAccounted'
  BY <1>1, <1>2 DEF IInv, SessionsAccounted, BeingClosed, ClosersOf, Exiting
<1> QED
  BY <1>3, <1>4, <1>5, <1>6 DEF IInv

LEMMA StartClosingOk ==
  ASSUME IInv, StartClosing PROVE IInv'
<1>1. UNCHANGED <<sess, conn, run, grid, limit>> /\ app.exit = "cancelling"
  BY DEF StartClosing
<1>2. /\ app' \in AppState /\ app'.holder = app.holder /\ app'.session = app.session
      /\ app'.state = app.state /\ app'.services = app.services
      /\ app'.exit = IF app.session = Nobody THEN "done" ELSE "closing"
      /\ app'.closes = app.session
  BY DEF StartClosing, IInv, TypeOK, AppState
<1>3. TypeOK'
  BY <1>1, <1>2 DEF IInv, TypeOK, Connecting
<1>4. GridOk' /\ HistOk' /\ SpinOk'
  BY <1>1, <1>2, SameRuns DEF Exiting
<1>5. ConnOk'
  <2>1. app.session \in Conn \cup {Nobody}
    BY DEF IInv, TypeOK, AppState
  <2> QED
    BY <1>1, <1>2, <2>1 DEF IInv, ConnOk
<1>6. SessionsAccounted'
  BY <1>1, <1>2 DEF IInv, SessionsAccounted, BeingClosed, ClosersOf, Exiting
<1> QED
  BY <1>3, <1>4, <1>5, <1>6 DEF IInv

LEMMA ExitOk ==
  ASSUME IInv, Exit PROVE IInv'
<1>1. UNCHANGED <<sess, conn, run, grid, limit>> /\ app.exit = "closing" /\ AllClosed(app.closes)
  BY DEF Exit
<1>2. /\ app' \in AppState /\ app'.holder = app.holder /\ app'.session = Nobody
      /\ app'.state = app.state /\ app'.services = app.services /\ app'.exit = "done"
      /\ app'.closes = app.closes
  BY DEF Exit, IInv, TypeOK, AppState
<1>3. TypeOK'
  BY <1>1, <1>2 DEF IInv, TypeOK, Connecting
<1>4. GridOk' /\ HistOk' /\ SpinOk'
  BY <1>1, <1>2, SameRuns DEF Exiting
<1>5. ConnOk'
  BY <1>1, <1>2, NobodyAssumption DEF IInv, ConnOk
<1>6. SessionsAccounted'
  <2>1. /\ sess[app.closes].made = sess[app.closes].closed
        /\ app.session = app.closes \/ conn[app.session].late
    BY <1>1 DEF IInv, ConnOk, AllClosed
  <2> QED
    BY <1>1, <1>2, <2>1 DEF IInv, SessionsAccounted, BeingClosed, ClosersOf, Exiting
<1> QED
  BY <1>3, <1>4, <1>5, <1>6 DEF IInv

-----------------------------------------------------------------------------
(* The invariant, and the theorems *)

LEMMA StutterOk ==
  ASSUME IInv, UNCHANGED vars PROVE IInv'
<1>1. UNCHANGED <<app, sess, conn, run, grid, limit>>
  BY DEF vars
<1>2. TypeOK'
  BY <1>1 DEF IInv, TypeOK, Connecting
<1>3. GridOk' /\ HistOk' /\ SpinOk'
  BY <1>1, SameRuns DEF Exiting, PoolClosing, BeingClosed, ClosersOf
<1>4. ConnOk' /\ SessionsAccounted'
  BY <1>1, IdleStep DEF IInv, Idle
<1> QED
  BY <1>2, <1>3, <1>4 DEF IInv

LEMMA NextOk ==
  IInv /\ [Next]_vars => IInv'
<1> SUFFICES ASSUME IInv, [Next]_vars PROVE IInv'
  OBVIOUS
<1>1. ASSUME NEW k \in Conn, ConnectWorker(k) PROVE IInv'
  BY <1>1, ConnectWorkerOk
<1>2. ASSUME NEW r \in Query, QueryWorker(r) PROVE IInv'
  BY <1>2, QueryWorkerOk
<1>3. CASE CancelQuery
  BY <1>3, CancelQueryOk
<1>4. CASE SetRowLimit
  BY <1>4, SetRowLimitOk
<1>5. CASE Quit
  BY <1>5, QuitOk
<1>6. CASE StartClosing
  BY <1>6, StartClosingOk
<1>7. CASE CloseForExit
  BY <1>7, CloseForExitOk
<1>8. CASE Exit
  BY <1>8, ExitOk
<1>9. CASE UNCHANGED vars
  BY <1>9, StutterOk
<1> QED
  BY <1>1, <1>2, <1>3, <1>4, <1>5, <1>6, <1>7, <1>8, <1>9, Zenon DEF Next

LEMMA Inductive ==
  Spec => []IInv
BY InitOk, NextOk, PTL DEF Spec

\* What the application, the sessions, the workers and the grid can be, the lock that
\* lets one connect past at a time included (app.py:313).
THEOREM TypeCorrect ==
  Spec => []TypeOK
<1>1. IInv => TypeOK
  BY DEF IInv
<1> QED
  BY <1>1, Inductive, PTL

\* The spinner stays without a query only when a CancelledError tore the query that it
\* was for (app.py:506-508).
THEOREM SpinnerStops ==
  Spec => []SpinnerEnds
<1>1. IInv => SpinnerEnds
  <2> SUFFICES ASSUME IInv, grid.loading, ~grid.inFlight
               PROVE  run[grid.of].how = "torn" /\ (Exiting \/ PoolClosing(run[grid.of].pool))
    BY DEF SpinnerEnds
  <2>1. /\ grid.of \in Query /\ ~Active(grid.of) /\ run[grid.of].pc # "new"
        /\ RowsOk(run[grid.of], grid)
    BY DEF IInv, GridOk
  <2>2. run[grid.of].pc = "over"
    BY <2>1 DEF Active
  <2> QED
    BY <2>1, <2>2 DEF IInv, SpinOk, RowsOk
<1> QED
  BY <1>1, Inductive, PTL

\* No session stays open unaccounted for, whichever worker failed, was cancelled or
\* came late (session.py:102-104, app.py:341-361).
THEOREM SessionsClosed ==
  Spec => []SessionsAccounted
<1>1. IInv => SessionsAccounted
  BY DEF IInv
<1> QED
  BY <1>1, Inductive, PTL

\* A query's entry in the history is there when it is over, and under its own
\* connection unless the session was replaced (app.py:689).
THEOREM HistoryKept ==
  Spec => []HistoryOwn
<1>1. IInv => HistoryOwn
  BY DEF IInv, HistOk, LabelOk, HistoryOwn
<1> QED
  BY <1>1, Inductive, PTL

\* A view that is cut is never taken for the full result, however many rows there are,
\* whatever the limit was meanwhile (results_table.py:3-5).
THEOREM GridTruthful ==
  Spec => []GridHonest
<1>1. IInv => GridHonest
  <2> SUFFICES ASSUME IInv, NEW r \in Query, grid.of = r, run[r].pc \in {"recording", "over"}
               PROVE  /\ grid.rows < Rows =>
                           \/ grid.summary.capped \/ grid.summary.cancelled
                           \/ run[r].how \in {"failed", "refused", "torn"}
                      /\ grid.truncated => grid.rows < run[r].sent
                      /\ run[r].how # "torn" => grid.shown = grid.rows
    BY DEF GridHonest, IInv, GridOk
  <2>1. RowsOk(run[r], grid)
    BY DEF IInv, GridOk
  <2> QED
    BY <2>1 DEF RowsOk
<1> QED
  BY <1>1, Inductive, PTL
=============================================================================
