------------------------------ MODULE Streams ------------------------------
(***************************************************************************)
(* serve/app.py on top of the scheduler: one coroutine, stream(), for each *)
(* client.  It submits a request, takes what the scheduler puts into the   *)
(* request's queue, and sends it on.                                       *)
(*                                                                         *)
(* A coroutine is suspended at two kinds of place: at the await of an      *)
(* empty queue, and at a yield, while the server sends what was yielded.   *)
(* A client may be lost at either.  The first is a cancellation, which     *)
(* stream() reports to the scheduler; of the second it is not told, as the *)
(* server closes the generator at its yield.                               *)
(***************************************************************************)
EXTENDS Scheduler

VARIABLES at,                 \* where the coroutine of each client is
          taken,              \* how much of its queue it has taken
          told                \* how many tokens the client was sent

streamVars == <<at, taken, told>>
allVars    == <<vars, streamVars>>

StreamsInit ==
  /\ Init
  /\ at    = [r \in Request |-> "new"]
  /\ taken = [r \in Request |-> 0]
  /\ told  = [r \in Request |-> 0]

Lost == {r \in Request : at[r] = "lost"}

-----------------------------------------------------------------------------
(* The coroutine, from one suspension to the next.                         *)

\* Mutant: stream() waits for more after an exception object.
HandledAndOn(item) ==
  CASE item = "token" -> "yielding"
    [] item = "end"   -> "closing"
    [] item = "crash" -> "waiting"

\* What is taken decides where it goes on: a token is yielded, the end mark
\* leads to the last yield, and an exception object is taken for a token,
\* which the tokenizer does not survive.
Handled(item) ==
  CASE item = "token" -> "yielding"
    [] item = "end"   -> "closing"
    [] item = "crash" -> "failed"

\* get() finds an item, now or when it is resumed.
Take(r) ==
  /\ taken[r] < Len(out[r])
  /\ taken' = [taken EXCEPT ![r] = @ + 1]
  /\ at'    = [at EXCEPT ![r] = Handled(out[r][taken[r] + 1])]

\* get() suspends on an empty queue.
Suspend(r) ==
  /\ taken[r] = Len(out[r])
  /\ at' = [at EXCEPT ![r] = "waiting"]
  /\ UNCHANGED taken

\* A new client: the request is submitted, and its queue is empty.
Connect(r) ==
  /\ at[r] = "new" /\ pc # "cancelled"
  /\ Submit(r)
  /\ at' = [at EXCEPT ![r] = "waiting"]
  /\ UNCHANGED <<taken, told>>

Resume(r) ==
  /\ at[r] = "waiting"
  /\ Take(r)
  /\ UNCHANGED <<vars, told>>

\* The server has sent a token and asks for more.
Sent(r) ==
  /\ at[r] = "yielding"
  /\ told' = [told EXCEPT ![r] = @ + 1]
  /\ Take(r) \/ Suspend(r)
  /\ UNCHANGED vars

\* The server has sent the last line.
Closed(r) ==
  /\ at[r] = "closing"
  /\ at' = [at EXCEPT ![r] = "ended"]
  /\ UNCHANGED <<vars, taken, told>>

-----------------------------------------------------------------------------
(* Clients that go away, and the end of the server.                        *)

\* At the await: CancelledError, and abort.
Cancelled(r) ==
  /\ at[r] = "waiting"
  /\ Abort(r)
  /\ at' = [at EXCEPT ![r] = "lost"]
  /\ UNCHANGED <<taken, told>>

\* At a yield: the generator is closed and says nothing.
Dropped(r) ==
  /\ at[r] \in {"yielding", "closing"} /\ Cardinality(Lost) < MaxAborts
  /\ at' = [at EXCEPT ![r] = "lost"]
  /\ UNCHANGED <<vars, taken, told>>

\* lifespan: the loop is cancelled at its await, when no response is open.
ShutDown ==
  /\ pc \notin {"dead", "cancelled"}
  /\ \A r \in Request : at[r] \in {"new", "ended", "failed", "lost"}
  /\ pc' = "cancelled"
  /\ UNCHANGED <<sched, aborted, wake, batch, streak, out, content, arrived, hungup, failures, lost, streamVars>>

ServerStep == (Loop \/ AdoptFails \/ Forward \/ ForwardFails) /\ UNCHANGED streamVars

Proceed(r) == Resume(r) \/ Sent(r) \/ Closed(r)

StreamsNext ==
  \/ \E r \in Request : Connect(r) \/ Proceed(r) \/ Cancelled(r) \/ Dropped(r)
  \/ ServerStep
  \/ ShutDown

\* As in Scheduler, where the loop and the thread are never both able to go on;
\* and the event loop resumes each coroutine that can go on, and a client that
\* stays connected takes what it is sent.
StreamsFairness ==
  /\ WF_allVars(ServerStep)
  /\ \A r \in Request : WF_allVars(Proceed(r))

StreamsSpec == StreamsInit /\ [][StreamsNext]_allVars /\ StreamsFairness

-----------------------------------------------------------------------------
(* Properties.                                                             *)

\* A client that reads the last line was sent every token of its answer, the
\* answer is complete, and nothing follows the end in its queue; before that
\* it was sent a part of it.  A stream that breaks, for whatever reason the
\* loop failed, was first sent every token computed until then.
AnswerWhole ==
  \A r \in Request : LET gen == sched.req[r].gen IN
    /\ told[r] <= Len(gen)
    /\ at[r] \in {"closing", "ended"} =>
         /\ told[r] = Len(gen) /\ taken[r] = Len(out[r])
         /\ Len(gen) = MaxTokens[r] \/ Last(gen) = Eos
    /\ at[r] = "failed" => told[r] = Len(gen) /\ taken[r] = Len(out[r])

\* Whoever connects gets the whole answer or an error, or goes away: no stream
\* waits for ever.
EveryStreamEnds ==
  \A r \in Request : (at[r] = "waiting") ~> (at[r] \in {"ended", "failed", "lost"})

Released(r) ==
  /\ ~Contains(sched.waiting \o sched.running \o batch.members, r)
  /\ sched.req[r].kv = FreshKV /\ sched.req[r].node = NoParent

\* What a lost client's request holds is given back: at the next pass of the
\* loop if stream() reported it, and in the end also if it did not.
GoneLeaveNothing ==
  \A r \in Request :
    /\ [](r \in hungup \ aborted => Released(r))
    /\ (at[r] = "lost") ~> (Released(r) \/ pc = "cancelled")
=============================================================================
