-------------------------------- MODULE Stream --------------------------------
(***************************************************************************)
(* A streamed model call: the goroutine of a provider that reads the       *)
(* server's events (Client.Stream in model/provider/openai and anthropic), *)
(* the StreamIterator (model/model.go), the goroutine that metricsModel    *)
(* puts in between if metrics are on (model/metrics_model.go), and the     *)
(* loop that collects the reply (streamReActPlan in agent/loop.go).        *)
(*                                                                         *)
(* They are joined by Go channels: hop 1 leads out of the provider, hop 2  *)
(* out of the metrics relay.  Each hop is a pair of a channel for chunks   *)
(* with Cap places and a channel for one error.  Deltas are numbered 1,    *)
(* 2, ...; Done is the last chunk, which carries the tool calls and usage. *)
(***************************************************************************)
EXTENDS Integers, Sequences

CONSTANTS
    Cap,        \* the capacity of a channel of chunks, 128
    MaxDeltas   \* bound: deltas the server sends

ASSUME StreamAssumption ==
    Cap \in Nat \ {0} /\ MaxDeltas \in Nat

Hops == 1..2
Done == 0

VARIABLES
    relayed,  \* WrapWithMetrics is in use
    msgCh,    \* per hop: the chunks in the channel
    errCh,    \* per hop: the error in the channel, if any, as a sequence
    closed,   \* per hop: the channels that have been closed, "msg" and "err"
    producer, \* the provider's goroutine
    relay,    \* the relay's goroutine: next, send, fail, closing, or ended
    chunk,    \* the chunk the relay holds
    usage,    \* the relay's finalUsage: none, seen, or counted in the metrics
    reader,   \* streamReActPlan: reading, answer, or error
    received, \* the chunks it has collected
    sent,     \* all chunks the provider has put into its channel
    ctxDone

streamVars == <<relayed, msgCh, errCh, closed, producer, relay, chunk, usage, reader,
                received, sent, ctxDone>>

\* The hop the reply is collected from.
LastHop == IF relayed THEN 2 ELSE 1

StreamInit ==
    /\ relayed \in BOOLEAN
    /\ msgCh = [h \in Hops |-> <<>>]
    /\ errCh = [h \in Hops |-> <<>>]
    /\ closed = [h \in Hops |-> {}]
    /\ producer = "reading"
    /\ relay = IF relayed THEN "next" ELSE "ended"
    /\ chunk = 0
    /\ usage = "none"
    /\ reader = "reading"
    /\ received = <<>>
    /\ sent = <<>>
    /\ ctxDone = FALSE

-------------------------------------------------------------------------------
\* Channels.  A send blocks while the channel is full; a receive is ready
\* when there is a value or the channel is closed.

Send(h, c) ==
    /\ Len(msgCh[h]) < Cap
    /\ msgCh' = [msgCh EXCEPT ![h] = Append(@, c)]

SendErr(h) ==
    /\ errCh[h] = <<>>
    /\ errCh' = [errCh EXCEPT ![h] = <<"err">>]

\* A mutation of CloseNext: nothing is closed.
CloseNextForgets(h) == UNCHANGED closed

\* The deferred calls run in reverse order: errCh is closed before msgCh.
CloseNext(h) ==
    closed' = [closed EXCEPT ![h] = IF "err" \in @ THEN @ \cup {"msg"} ELSE {"err"}]

\* A mutation of Next: the latest chunk is taken first.
NextLatest(h, res, c) ==
    \/ /\ msgCh[h] # <<>>
       /\ res = "chunk" /\ c = msgCh[h][Len(msgCh[h])]
       /\ msgCh' = [msgCh EXCEPT ![h] = SubSeq(@, 1, Len(@) - 1)]
       /\ UNCHANGED errCh
    \/ /\ msgCh[h] = <<>> /\ "msg" \in closed[h]
       /\ res = "end" /\ c = 0
       /\ UNCHANGED <<msgCh, errCh>>

(* StreamIterator.Next: a select over both channels, which picks any ready *)
(* one.  res is "chunk", with the chunk c, or the end of the iteration:    *)
(* "error", or "end" if Err() is nil.                                      *)
Next(h, res, c) ==
    \/ /\ msgCh[h] # <<>>
       /\ res = "chunk" /\ c = Head(msgCh[h])
       /\ msgCh' = [msgCh EXCEPT ![h] = Tail(@)]
       /\ UNCHANGED errCh
    \/ /\ msgCh[h] = <<>> /\ "msg" \in closed[h]
       /\ res = "end" /\ c = 0
       /\ UNCHANGED <<msgCh, errCh>>
    \/ /\ errCh[h] # <<>>
       /\ res = "error" /\ c = 0
       /\ errCh' = [errCh EXCEPT ![h] = <<>>]
       /\ UNCHANGED msgCh
    \/ /\ errCh[h] = <<>> /\ "err" \in closed[h]
       /\ res = "end" /\ c = 0
       /\ UNCHANGED <<msgCh, errCh>>

Results == {"chunk", "end", "error"}

-------------------------------------------------------------------------------
\* The provider's goroutine

\* A delta of the answer arrives.
ReadDelta ==
    /\ producer = "reading"
    /\ Len(sent) < MaxDeltas
    /\ producer' = "sending"
    /\ UNCHANGED <<msgCh, errCh, closed, relay, chunk, usage, reader, received,
                   sent, ctxDone>>

\* It is passed on: a plain send, which does not watch the context.
SendDelta ==
    /\ producer = "sending"
    /\ Send(1, Len(sent) + 1)
    /\ sent' = Append(sent, Len(sent) + 1)
    /\ producer' = "reading"
    /\ UNCHANGED <<errCh, closed, relay, chunk, usage, reader, received, ctxDone>>

(* The context is done, reading fails, the server reports an error, or a   *)
(* tool call's arguments are no JSON.                                      *)
ProducerFails ==
    /\ producer = "reading"
    /\ SendErr(1)
    /\ producer' = "closing"
    /\ UNCHANGED <<msgCh, closed, relay, chunk, usage, reader, received, sent,
                   ctxDone>>

\* The server is done: the last chunk carries the tool calls and the usage.
ReadEnd ==
    /\ producer = "reading"
    /\ producer' = "finalizing"
    /\ UNCHANGED <<msgCh, errCh, closed, relay, chunk, usage, reader, received,
                   sent, ctxDone>>

Finalize ==
    /\ producer = "finalizing"
    /\ Send(1, Done)
    /\ sent' = Append(sent, Done)
    /\ producer' = "closing"
    /\ UNCHANGED <<errCh, closed, relay, chunk, usage, reader, received, ctxDone>>

ProducerCloses ==
    /\ producer = "closing"
    /\ CloseNext(1)
    /\ producer' = IF "msg" \in closed'[1] THEN "ended" ELSE "closing"
    /\ UNCHANGED <<msgCh, errCh, relay, chunk, usage, reader, received, sent,
                   ctxDone>>

-------------------------------------------------------------------------------
\* The relay of metricsModel.Stream

RelayNext ==
    /\ relay = "next"
    /\ \E res \in Results, c \in 0..MaxDeltas :
          /\ Next(1, res, c)
          /\ relay' = CASE res = "chunk" -> "send"
                        [] res = "error" -> "fail"
                        [] res = "end" -> "closing"
          /\ chunk' = c
          /\ usage' \in CASE res = "chunk" /\ c = Done -> {usage, "seen"}
                          [] res = "end" /\ usage = "seen" -> {"counted"}
                          [] OTHER -> {usage}
    /\ UNCHANGED <<closed, producer, reader, received, sent, ctxDone>>

RelaySends ==
    /\ relay = "send"
    /\ \/ Send(2, chunk) /\ relay' = "next"
       \/ ctxDone /\ relay' = "closing" /\ UNCHANGED msgCh
    /\ UNCHANGED <<errCh, closed, producer, chunk, usage, reader, received, sent,
                   ctxDone>>

RelayFails ==
    /\ relay = "fail"
    /\ \/ SendErr(2)
       \/ ctxDone /\ UNCHANGED errCh
    /\ relay' = "closing"
    /\ UNCHANGED <<msgCh, closed, producer, chunk, usage, reader, received, sent,
                   ctxDone>>

RelayCloses ==
    /\ relay = "closing"
    /\ CloseNext(2)
    /\ relay' = IF "msg" \in closed'[2] THEN "ended" ELSE "closing"
    /\ UNCHANGED <<msgCh, errCh, producer, chunk, usage, reader, received, sent,
                   ctxDone>>

-------------------------------------------------------------------------------
\* streamReActPlan: collect the chunks until Next says no.

Collect ==
    /\ reader = "reading"
    /\ \E res \in Results, c \in 0..MaxDeltas :
          /\ Next(LastHop, res, c)
          /\ IF res = "chunk"
             THEN received' = Append(received, c) /\ UNCHANGED reader
             ELSE /\ reader' = IF res = "error" THEN "error" ELSE "answer"
                  /\ UNCHANGED received
    /\ UNCHANGED <<closed, producer, relay, chunk, usage, sent, ctxDone>>

\* The Run's deadline passes, or the caller cancels.
StreamExpire ==
    /\ ~ctxDone
    /\ ctxDone' = TRUE
    /\ UNCHANGED <<msgCh, errCh, closed, producer, relay, chunk, usage, reader,
                   received, sent>>

Produce ==
    ReadDelta \/ SendDelta \/ ProducerFails \/ ReadEnd \/ Finalize \/ ProducerCloses
RelayStep == RelayNext \/ RelaySends \/ RelayFails \/ RelayCloses

StreamNext == (Produce \/ RelayStep \/ Collect \/ StreamExpire) /\ UNCHANGED relayed

StreamSpec == StreamInit /\ [][StreamNext]_streamVars

(* Goroutines that can run do run, and the server does not keep the        *)
(* connection open for ever: it ends, fails, or the request's context      *)
(* closes it.                                                              *)
FairStreamSpec ==
    /\ StreamSpec
    /\ WF_streamVars(Produce /\ UNCHANGED relayed)
    /\ WF_streamVars(RelayStep /\ UNCHANGED relayed)
    /\ WF_streamVars(Collect /\ UNCHANGED relayed)

-------------------------------------------------------------------------------

(* What has been collected is always a prefix of what the provider sent:   *)
(* no chunk is lost in the middle, repeated or overtaken on its way        *)
(* through both hops, and what is under way continues it.                  *)
ChunksInOrder ==
    LET held == IF relay = "send" THEN <<chunk>> ELSE <<>>
        path == IF relayed THEN received \o msgCh[2] \o held \o msgCh[1]
                ELSE received \o msgCh[1]
    IN  IF relay \in {"closing", "ended"} /\ relayed
        THEN \E n \in 0..Len(sent) : received \o msgCh[2] = SubSeq(sent, 1, n)
        ELSE path = sent

(* td.md says of streaming that the loop accumulates the complete          *)
(* response.  A reply that is taken for an answer would then hold every    *)
(* chunk up to the last one, with the tool calls.  Next may see the closed *)
(* error channel, or the closed channel of chunks, first.                  *)
AnswerIsComplete ==
    reader = "answer" => received # <<>> /\ received[Len(received)] = Done
===============================================================================
