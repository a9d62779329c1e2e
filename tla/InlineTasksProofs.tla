-------------------------- MODULE InlineTasksProofs --------------------------
(***************************************************************************)
(* What holds of inline tasks for any number of threads and names, however *)
(* deep tasks dispatch tasks and whatever the size of the pool.            *)
(***************************************************************************)
EXTENDS InlineTasks, PoolProofs

USE DEF Frames

(* Who waits for a connection has none, and a session that could be asked  *)
(* for one.                                                                *)
WaitersHoldNothing == \A f \in waiting : ~Holds(f) /\ f \notin poisoned \cup aborted

(* The running frames of a thread are the outermost ones.                  *)
Stacked == \A f, g \in Frames :
    f[1] = g[1] /\ g[2] <= f[2] /\ at[f] \in Running => at[g] \in Running

(* Work flushed in a block that is still open is there, or a call failed;  *)
(* and it goes on after a query that failed only if it swallowed that.     *)
WorkIsTracked == \A f \in worked :
    /\ at[f] \notin {"unused", "before"}
    /\ at[f] \in Inside => f \in wrote \cup poisoned \cup aborted

AbortedIsSeen == \A f \in aborted : at[f] \in Inside /\ (f \in caught \/ Unwinds(f))

(* A frame that left its block, and whose work is not durable, is being    *)
(* unwound, unless it swallows the exception.                              *)
Unsettled(f) == at[f] = "after" /\ f \in worked \ (caught \cup durable)
UnsettledUnwind == \A f \in Frames : Unsettled(f) => Unwinds(f)

(* A task dispatched after the block was dispatched by a frame that has no *)
(* work in the air any more.                                               *)
LateSettled == \A f \in Handling : sent[f] = "after" =>
    /\ at[Caller(f)] \notin {"unused", "before"} \cup Inside
    /\ Caller(f) \in worked \ caught => Caller(f) \in durable

IInv ==
    /\ TypeOK /\ OnlyInsideHolds /\ WaitersHoldNothing
    /\ Stacked /\ FailureIsSeen
    /\ WorkIsTracked /\ AbortedIsSeen /\ UnsettledUnwind /\ LateSettled

-----------------------------------------------------------------------------
(* Frames.                                                                 *)

LEMMA FrameFacts ==
    /\ \A f \in Frames : f[1] \in Threads /\ f[2] \in Nat /\ 1 <= f[2]
    /\ \A f, g \in Frames : f[1] = g[1] /\ f[2] = g[2] => f = g
    /\ \A f \in Frames : Callee(f)[1] = f[1] /\ Callee(f)[2] = f[2] + 1
    /\ \A f, g \in Frames : f[1] = g[1] /\ f[2] < g[2] => Callee(f) \in Frames
    /\ \A f \in Frames : f[2] > 1 =>
          /\ Caller(f) \in Frames /\ Caller(f)[1] = f[1] /\ Caller(f)[2] = f[2] - 1
          /\ Callee(Caller(f)) = f
  <1>1. \A f : f \in Frames <=>
          \E t \in Threads : \E d \in 1..MaxDepth[t] : f = <<t, d>>
    BY FramesAssumption
  <1>2. \A t \in Threads : MaxDepth[t] \in Nat
    BY MaxDepthAssumption
  <1>3. QED
    BY <1>1, <1>2 DEF Callee, Caller

(* Where a thread is, its running frames end.                              *)
LEMMA TopFacts ==
    ASSUME Stacked, NEW f \in Frames, Top(f), NEW g \in Frames, g[1] = f[1]
    PROVE  at[g] \in Running <=> g[2] <= f[2]
  <1>1. ASSUME g[2] <= f[2] PROVE at[g] \in Running
    BY <1>1 DEF Stacked, Top
  <1>2. ASSUME f[2] < g[2] PROVE at[g] \notin Running
    <2>1. Callee(f) \in Frames /\ Callee(f)[1] = g[1] /\ Callee(f)[2] <= g[2]
      BY <1>2, FrameFacts
    <2>2. QED
      BY <2>1 DEF Stacked, Top, Suspended
  <1>3. QED
    BY <1>1, <1>2, FrameFacts

LEMMA OneTop ==
    ASSUME Stacked, NEW f \in Frames, NEW g \in Frames, Top(f), Top(g), f[1] = g[1]
    PROVE  f = g
  BY TopFacts, FrameFacts DEF Top

-----------------------------------------------------------------------------
(* The stack of a thread: how an exception goes through it.                *)

Stack == TypeOK /\ Stacked /\ FailureIsSeen

(* The thread goes on in the frame it is in, or begins to raise there.     *)
LEMMA GoingOn ==
    ASSUME Stack, NEW f \in Frames, NEW place \in Running, at[f] \in Running,
           at' = [at EXCEPT ![f] = place], raising \subseteq raising', caught' = caught
    PROVE  Stacked' /\ FailureIsSeen'
  <1> USE DEF Stack
  <1>1. \A g \in Frames : /\ at'[g] \in Running <=> at[g] \in Running
                          /\ at[g] \notin Running => at'[g] = at[g]
    BY DEF TypeOK
  <1>2. Stacked'
    BY <1>1 DEF Stacked
  <1>3. FailureIsSeen'
    <2>1. ASSUME NEW g \in Handling, at'[g] = "raised"
          PROVE  \/ Caller(g) \in caught'
                 \/ at'[Caller(g)] \in {"raised", "killed"}
                 \/ at'[Caller(g)] \in Running /\ g[1] \in raising'
      <3>1. at[g] = "raised" /\ Caller(g) \in Frames
        BY <1>1, <2>1, FrameFacts DEF Handling, Running, Inside
      <3>2. at[Caller(g)] \in {"raised", "killed"} => at[Caller(g)] \notin Running
        BY DEF Running, Inside
      <3>3. QED
        BY <1>1, <3>1, <3>2 DEF FailureIsSeen
    <2>2. QED
      BY <2>1 DEF FailureIsSeen, Handling
  <1>4. QED
    BY <1>2, <1>3

LEMMA StartKeepsStack ==
    ASSUME Stack, NEW f \in Frames, Start(f)
    PROVE  Stacked' /\ FailureIsSeen'
  <1> USE DEF Stack
  <1>1. /\ f[2] = 1 /\ at[f] = "unused" /\ raising' = raising /\ caught' = caught
        /\ at'[f] = "before" /\ \A g \in Frames : g # f => at'[g] = at[g]
    BY DEF Start, Move, TypeOK
  <1>2. Stacked'
    BY <1>1, FrameFacts DEF Stacked, Running, Inside
  <1>3. FailureIsSeen'
    BY <1>1, FrameFacts DEF FailureIsSeen, Handling, Running, Inside
  <1>4. QED
    BY <1>2, <1>3

LEMMA DispatchKeepsStack ==
    ASSUME Stack, NEW f \in Frames, NEW n \in Names, Dispatch(f, n)
    PROVE  Stacked' /\ FailureIsSeen'
  <1> USE DEF Stack
  <1> DEFINE c == Callee(f)
  <1>1. /\ at[f] \in Running /\ c \in Frames /\ c[1] = f[1] /\ c[2] = f[2] + 1
        /\ at[c] = "unused" /\ raising' = raising /\ caught' = caught
        /\ at'[c] = "before" /\ \A g \in Frames : g # c => at'[g] = at[g]
    BY FrameFacts DEF Dispatch, Goes, Top, Move, TypeOK
  <1> HIDE DEF c
  <1>2. Stacked'
    <2>1. SUFFICES ASSUME NEW g \in Frames, NEW h \in Frames, g[1] = h[1], h[2] <= g[2],
                          at'[g] \in Running
                   PROVE  at'[h] \in Running
      BY DEF Stacked
    <2>2. CASE h = c
      BY <1>1, <2>2 DEF Running
    <2>3. CASE h # c /\ g = c
      <3>1. h[1] = f[1] /\ h[2] <= f[2]
        BY <1>1, <2>1, <2>3, FrameFacts
      <3>2. QED
        BY <1>1, <2>3, <3>1 DEF Stacked
    <2>4. CASE h # c /\ g # c
      BY <1>1, <2>1, <2>4 DEF Stacked
    <2>5. QED
      BY <2>2, <2>3, <2>4
  <1>3. FailureIsSeen'
    BY <1>1, FrameFacts DEF FailureIsSeen, Handling, Running, Inside
  <1>4. QED
    BY <1>2, <1>3

(* A frame that ends, by returning or by an exception that goes on.        *)
LEMMA EndingKeepsStack ==
    ASSUME Stack, NEW f \in Frames, Finish(f) \/ Unwind(f)
    PROVE  Stacked' /\ FailureIsSeen'
  <1> USE DEF Stack
  <1>1. /\ Top(f) /\ at[f] \in Running /\ at'[f] \in {"returned", "raised"} /\ caught' = caught
        /\ \A g \in Frames : g # f => at'[g] = at[g]
    BY DEF Finish, Unwind, Goes, Unwinds, Top, Move, TypeOK
  <1>2. at'[f] \notin Running
    BY <1>1 DEF Running, Inside
  <1>3. Stacked'
    <2>1. SUFFICES ASSUME NEW g \in Frames, NEW h \in Frames, g[1] = h[1], h[2] <= g[2],
                          at'[g] \in Running
                   PROVE  at'[h] \in Running
      BY DEF Stacked
    <2>2. g # f /\ at[g] \in Running /\ at[h] \in Running
      BY <1>1, <1>2, <2>1 DEF Stacked
    <2>3. h # f
      BY <1>1, <2>1, <2>2, TopFacts, FrameFacts
    <2>4. QED
      BY <1>1, <2>2, <2>3
  <1>4. FailureIsSeen'
    <2>1. SUFFICES ASSUME NEW g \in Frames, g[2] > 1, at'[g] = "raised"
                   PROVE  \/ Caller(g) \in caught
                          \/ at'[Caller(g)] \in {"raised", "killed"}
                          \/ at'[Caller(g)] \in Running /\ g[1] \in raising'
      BY <1>1 DEF FailureIsSeen, Handling
    <2>2. Caller(g) \in Frames /\ Caller(g)[1] = g[1] /\ Caller(g)[2] = g[2] - 1 /\ Caller(g) # g
      BY <2>1, FrameFacts
    <2>3. CASE g = f
      <3>1. Unwind(f) /\ f[1] \in raising
        BY <1>1, <2>1, <2>3 DEF Finish, Unwind, Unwinds, Move, TypeOK
      <3>2. raising' = raising
        BY <2>1, <2>3, <3>1, FrameFacts DEF Unwind
      <3>3. at[Caller(g)] \in Running
        BY <1>1, <2>2, <2>3, FrameFacts DEF Stacked
      <3>4. QED
        BY <1>1, <2>2, <2>3, <3>1, <3>2, <3>3
    <2>4. CASE g # f /\ Caller(g) = f
      <3>1. at[g] = "raised"
        BY <1>1, <2>1, <2>4
      <3>2. f \in caught \/ g[1] \in raising
        BY <1>1, <2>1, <2>4, <3>1 DEF FailureIsSeen, Handling, Running, Inside
      <3>3. f[1] \in raising => at'[f] = "raised"
        BY <1>1 DEF Finish, Goes, Unwind, Move, TypeOK
      <3>4. QED
        BY <2>2, <2>4, <3>2, <3>3
    <2>5. CASE g # f /\ Caller(g) # f
      <3>1. at[g] = "raised" /\ at'[Caller(g)] = at[Caller(g)]
        BY <1>1, <2>1, <2>2, <2>5
      <3>2. raising' = raising \/ (f[2] = 1 /\ raising' = raising \ {f[1]})
        BY DEF Finish, Unwind
      <3>3. CASE f[2] = 1 /\ g[1] = f[1]
        <4>1. at[Caller(g)] \notin Running
          BY <1>1, <2>2, <2>5, <3>3, TopFacts, FrameFacts
        <4>2. QED
          BY <2>1, <3>1, <4>1 DEF FailureIsSeen, Handling
      <3>4. CASE f[2] # 1 \/ g[1] # f[1]
        <4>1. g[1] \in raising => g[1] \in raising'
          BY <3>2, <3>4
        <4>2. QED
          BY <2>1, <3>1, <4>1 DEF FailureIsSeen, Handling
      <3>5. QED
        BY <3>3, <3>4
    <2>6. QED
      BY <2>3, <2>4, <2>5
  <1>5. QED
    BY <1>3, <1>4

LEMMA CatchKeepsStack ==
    ASSUME Stack, NEW f \in Frames, Catch(f)
    PROVE  Stacked' /\ FailureIsSeen'
  <1> USE DEF Stack
  <1>1. /\ Top(f) /\ at' = at /\ caught' = caught \cup {f} /\ raising' = raising \ {f[1]}
    BY DEF Catch, Unwinds
  <1>2. ASSUME NEW g \in Frames, g[2] > 1, at[g] = "raised", g[1] = f[1],
               at[Caller(g)] \in Running
        PROVE  Caller(g) = f
    <2>1. Caller(g) \in Frames /\ Caller(g)[1] = g[1] /\ Caller(g)[2] = g[2] - 1
      BY <1>2, FrameFacts
    <2>2. at[g] \notin Running
      BY <1>2 DEF Running, Inside
    <2>3. Caller(g)[2] <= f[2] /\ f[2] < g[2]
      BY <1>1, <1>2, <2>1, <2>2, TopFacts, FrameFacts
    <2>4. QED
      BY <1>2, <2>1, <2>3, FrameFacts
  <1>3. FailureIsSeen'
    BY <1>1, <1>2 DEF FailureIsSeen, Handling
  <1>4. QED
    BY <1>1, <1>3 DEF Stacked

LEMMA KillKeepsStack ==
    ASSUME Stack, Kill
    PROVE  Stacked' /\ FailureIsSeen'
  <1> USE DEF Stack
  <1>1. /\ \A f \in Frames : at'[f] = IF at[f] \in Running THEN "killed" ELSE at[f]
        /\ caught' = caught
    BY DEF Kill
  <1>2. \A f \in Frames : at'[f] \notin Running
    BY <1>1 DEF Running, Inside
  <1>3. Stacked'
    BY <1>2 DEF Stacked
  <1>4. FailureIsSeen'
    BY <1>1, FrameFacts DEF FailureIsSeen, Handling, Running, Inside
  <1>5. QED
    BY <1>3, <1>4

LEMMA StepKeepsStack ==
    ASSUME Stack, [Next]_vars
    PROVE  Stacked' /\ FailureIsSeen'
  <1>1. ASSUME UNCHANGED <<at, raising, caught>> PROVE Stacked' /\ FailureIsSeen'
    BY <1>1 DEF Stack, Stacked, FailureIsSeen
  <1>2. ASSUME NEW f \in Frames, NEW n \in Names, NEW sensitive \in BOOLEAN,
               DispatchRefused(f, n, sensitive)
        PROVE  Stacked' /\ FailureIsSeen'
    <2>1. /\ at[f] \in Running /\ at' = [at EXCEPT ![f] = at[f]]
          /\ raising \subseteq raising' /\ caught' = caught
      BY <1>2 DEF DispatchRefused, Goes, Top, Stack, TypeOK
    <2>2. QED
      BY <2>1, GoingOn
  <1>3. ASSUME NEW f \in Frames, Raise(f) \/ Checkout(f)
        PROVE  Stacked' /\ FailureIsSeen'
    <2>1. /\ at[f] \in Running /\ at' = [at EXCEPT ![f] = at[f]]
          /\ raising \subseteq raising' /\ caught' = caught
      BY <1>3 DEF Raise, Checkout, Goes, Top, Stack, TypeOK
    <2>2. QED
      BY <2>1, GoingOn
  <1>4. ASSUME NEW f \in Frames,
               \/ Enter(f) \/ Flush(f) \/ FlushFails(f) \/ StatementFails(f) \/ Flushed(f)
               \/ Leave(f) \/ LeaveRaising(f)
        PROVE  Stacked' /\ FailureIsSeen'
    <2>1. PICK place \in {"inside", "flushing", "after"} : at' = [at EXCEPT ![f] = place]
      BY <1>4 DEF Enter, Flush, FlushFails, StatementFails, Flushed, Leave, LeaveRaising, Move
    <2>2. at[f] \in Running /\ place \in Running
      BY <1>4 DEF Enter, Flush, FlushFails, StatementFails, Flushed, Leave, LeaveRaising, Goes, Unwinds, Top,
                  Running, Inside
    <2>3. raising \subseteq raising' /\ caught' = caught
      BY <1>4 DEF Enter, Flush, FlushFails, StatementFails, Flushed, Leave, LeaveRaising
    <2>4. QED
      BY <2>1, <2>2, <2>3, GoingOn
  <1>5. ASSUME NEW f \in Frames, Code(f) PROVE Stacked' /\ FailureIsSeen'
    <2>1. Connected(f) => UNCHANGED <<at, raising, caught>>
      BY DEF Connected
    <2>2. QED
      BY <1>1, <1>2, <1>3, <1>4, <1>5, <2>1, EndingKeepsStack, CatchKeepsStack,
         DispatchKeepsStack DEF Code
  <1>6. (\E n \in Names : Register(n)) \/ Elsewhere \/ UNCHANGED vars
           => UNCHANGED <<at, raising, caught>>
    BY DEF Register, Elsewhere, vars
  <1>7. QED
    BY <1>1, <1>5, <1>6, StartKeepsStack, KillKeepsStack DEF Next

-----------------------------------------------------------------------------
(* The connections: an exception gives back what each frame had.           *)

Connections == TypeOK /\ OnlyInsideHolds /\ WaitersHoldNothing

LEMMA CodeKeepsConnections ==
    ASSUME Connections, NEW f \in Frames, Code(f) \/ Start(f)
    PROVE  Connections'
  <1> USE DEF Connections, TypeOK, PoolTypeOK
  <1>1. ASSUME Start(f) \/ Raise(f) \/ Finish(f) \/ Unwind(f) \/ Catch(f) \/ Enter(f) \/ Flush(f)
        PROVE  Connections'
    <2>1. /\ UNCHANGED <<poolVars, handlers, wrote, poisoned, aborted, durable, worked, sent>>
          /\ raising' \subseteq Threads /\ caught' \subseteq Frames
      BY <1>1, FrameFacts DEF Start, Raise, Finish, Unwind, Catch, Enter, Flush, unitVars
    <2>2. \A g \in Frames : g # f => at'[g] = at[g]
      BY <1>1 DEF Start, Raise, Finish, Unwind, Catch, Enter, Flush, Move
    <2>3. at[f] = "flushing" => at' = at
      BY <1>1 DEF Start, Raise, Finish, Unwind, Catch, Enter, Flush
    <2>4. at[f] \in Inside => at'[f] \in Inside
      BY <1>1 DEF Start, Raise, Finish, Unwind, Catch, Enter, Flush, Move, Inside
    <2>5. target' \in [Frames -> Contested \cup {Own}]
      BY <1>1 DEF Start, Raise, Finish, Unwind, Catch, Enter, Flush, unitVars
    <2>6. at' \in [Frames -> {"unused", "returned", "raised", "killed"} \cup Running]
      BY <1>1 DEF Start, Raise, Finish, Unwind, Catch, Enter, Flush, Move, Running, Inside
    <2>7. TypeOK'
      BY <2>1, <2>5, <2>6 DEF poolVars
    <2>8. OnlyInsideHolds'
      BY <2>1, <2>2, <2>3, <2>4, NobodyAssumption DEF OnlyInsideHolds, poolVars
    <2>9. WaitersHoldNothing'
      BY <2>1 DEF WaitersHoldNothing, Holds, poolVars
    <2>10. QED
      BY <2>7, <2>8, <2>9
  <1>2. ASSUME NEW n \in Names, NEW sensitive \in BOOLEAN,
               Dispatch(f, n) \/ DispatchRefused(f, n, sensitive)
        PROVE  Connections'
    <2>1. /\ UNCHANGED <<poolVars, handlers, unitVars, caught>> /\ raising' \subseteq Threads
      BY <1>2, FrameFacts DEF Dispatch, DispatchRefused
    <2>2. \A g \in Frames : at[g] # "unused" => at'[g] = at[g]
      BY <1>2 DEF Dispatch, DispatchRefused, Move
    <2>3. at' \in [Frames -> {"unused", "returned", "raised", "killed"} \cup Running]
      BY <1>2 DEF Dispatch, DispatchRefused, Move, Running
    <2>4. sent' \in [Frames -> {"unused", "before", "inside", "after"}]
      <3>1. CASE Dispatch(f, n)
        BY <3>1 DEF Dispatch, Goes, Top, Running, Inside
      <3>2. CASE DispatchRefused(f, n, sensitive)
        BY <3>2 DEF DispatchRefused
      <3>3. QED
        BY <1>2, <3>1, <3>2
    <2>5. OnlyInsideHolds'
      BY <2>1, <2>2, NobodyAssumption DEF OnlyInsideHolds, poolVars, Inside
    <2>6. WaitersHoldNothing'
      BY <2>1 DEF WaitersHoldNothing, Holds, poolVars, unitVars
    <2>7. QED
      BY <2>1, <2>3, <2>4, <2>5, <2>6 DEF poolVars, unitVars
  <1>3. ASSUME Checkout(f) PROVE Connections'
    <2>1. /\ waiting' = waiting \cup {f} /\ ~Holds(f) /\ at[f] = "flushing"
          /\ f \notin poisoned \cup aborted
          /\ UNCHANGED <<slot, server, handlers, at, unitVars, raising, caught, sent>>
      BY <1>3 DEF Checkout, Request
    <2>2. QED
      BY <2>1 DEF OnlyInsideHolds, WaitersHoldNothing, Holds, unitVars
  <1>4. ASSUME Connected(f) PROVE Connections'
    <2>1. PICK s \in Slots : Grant(f, s)
      BY <1>4 DEF Connected
    <2>2. /\ PoolTypeOK' /\ f \in waiting /\ waiting' = waiting \ {f}
          /\ slot'[s] = [owner |-> f, link |-> "live"]
          /\ \A t \in Slots : t # s => slot'[t] = slot[t]
      BY <2>1, GrantFacts
    <2>3. UNCHANGED <<handlers, at, unitVars, raising, caught, sent>>
      BY <1>4 DEF Connected
    <2>4. OnlyInsideHolds'
      <3>1. at[f] \in Inside
        BY <2>2 DEF OnlyInsideHolds, Inside
      <3>2. QED
        BY <2>2, <2>3, <3>1 DEF OnlyInsideHolds
    <2>5. WaitersHoldNothing'
      BY <2>2, <2>3 DEF WaitersHoldNothing, Holds, unitVars
    <2>6. QED
      BY <2>2, <2>3, <2>4, <2>5 DEF unitVars
  <1>5. ASSUME Flushed(f) PROVE Connections'
    <2>1. /\ UNCHANGED <<poolVars, handlers, target, poisoned, aborted, raising, durable,
                          caught, sent>>
          /\ at' = [at EXCEPT ![f] = "inside"] /\ Holds(f)
          /\ wrote' = wrote \cup {f} /\ worked' = worked \cup {f}
      BY <1>5 DEF Flushed, Move, HasLink, Holds
    <2>2. f \notin waiting
      BY <2>1 DEF WaitersHoldNothing
    <2>3. OnlyInsideHolds'
      BY <2>1, <2>2, NobodyAssumption DEF OnlyInsideHolds, Inside, poolVars
    <2>4. WaitersHoldNothing'
      BY <2>1 DEF WaitersHoldNothing, Holds, poolVars
    <2>5. QED
      BY <2>1, <2>3, <2>4 DEF Running, Inside, poolVars
  <1>6. ASSUME FlushFails(f) PROVE Connections'
    <2>1. /\ at[f] = "flushing" /\ at' = [at EXCEPT ![f] = "inside"]
          /\ poisoned' = poisoned \cup {f} /\ aborted' = aborted \ {f}
          /\ wrote' = wrote \ {f} /\ raising' = raising \cup {f[1]}
          /\ UNCHANGED <<handlers, target, durable, worked, caught, sent>>
      BY <1>6 DEF FlushFails, Move
    <2>2. /\ PoolTypeOK' /\ waiting' = waiting \ {f}
          /\ \A t \in Slots : slot'[t].owner = slot[t].owner
      <3>1. CASE f \in poisoned \cup aborted /\ UNCHANGED poolVars
        BY <3>1 DEF WaitersHoldNothing, poolVars
      <3>2. CASE HasLink(f, "dead") /\ UNCHANGED poolVars
        <4>1. Holds(f)
          BY <3>2 DEF HasLink, Holds
        <4>2. QED
          BY <3>2, <4>1 DEF WaitersHoldNothing, poolVars
      <3>3. CASE (\E s \in Slots : ConnectFail(f, s)) \/ Timeout(f)
        BY <3>3, RefusalFacts
      <3>4. QED
        BY <1>6, <3>1, <3>2, <3>3 DEF FlushFails
    <2>3. OnlyInsideHolds'
      BY <2>1, <2>2, NobodyAssumption DEF OnlyInsideHolds, Inside
    <2>4. WaitersHoldNothing'
      BY <2>1, <2>2 DEF WaitersHoldNothing, Holds
    <2>5. QED
      BY <2>1, <2>2, <2>3, <2>4, FrameFacts DEF Running, Inside
  <1>7. ASSUME Leave(f) \/ LeaveRaising(f) PROVE Connections'
    <2>1. /\ at[f] = "inside" /\ at' = [at EXCEPT ![f] = "after"] /\ slot' = Returned(f)
          /\ poisoned' = poisoned \ {f} /\ aborted' = aborted \ {f} /\ wrote' = wrote \ {f}
          /\ target' = [target EXCEPT ![f] = Own]
          /\ UNCHANGED <<server, waiting, handlers, worked, caught, sent>>
          /\ durable' \subseteq durable \cup wrote /\ raising' \subseteq raising \cup {f[1]}
      BY <1>7 DEF Leave, LeaveRaising, Close, Move
    <2>2. /\ slot' \in [Slots -> [owner : Clients \cup {Nobody}, link : Links]]
          /\ \A s \in Slots : slot'[s].owner # f
          /\ \A s \in Slots : slot'[s].owner \in {slot[s].owner, Nobody}
      BY <2>1, ReturnedFacts
    <2>3. OnlyInsideHolds'
      BY <2>1, <2>2, NobodyAssumption DEF OnlyInsideHolds
    <2>4. WaitersHoldNothing'
      BY <2>1, <2>2, NobodyAssumption DEF WaitersHoldNothing, Holds
    <2>5. QED
      BY <2>1, <2>2, <2>3, <2>4, FrameFacts DEF Running, Inside
  <1>8. ASSUME StatementFails(f) PROVE Connections'
    <2>1. /\ at[f] \in Inside /\ at' = [at EXCEPT ![f] = "inside"] /\ Holds(f)
          /\ poisoned' \subseteq poisoned \cup {f} /\ aborted' \subseteq aborted \cup {f}
          /\ wrote' = wrote \ {f} /\ raising' = raising \cup {f[1]}
          /\ UNCHANGED <<poolVars, handlers, target, durable, worked, caught, sent>>
      BY <1>8 DEF StatementFails, Move, HasLink, Holds
    <2>2. f \notin waiting
      BY <2>1 DEF WaitersHoldNothing
    <2>3. OnlyInsideHolds'
      BY <2>1, <2>2, NobodyAssumption DEF OnlyInsideHolds, Inside, poolVars
    <2>4. WaitersHoldNothing'
      BY <2>1, <2>2 DEF WaitersHoldNothing, Holds, poolVars
    <2>5. QED
      BY <2>1, <2>3, <2>4, FrameFacts DEF Running, Inside, poolVars
  <1>9. QED
    BY <1>1, <1>2, <1>3, <1>4, <1>5, <1>6, <1>7, <1>8 DEF Code

LEMMA StepKeepsConnections ==
    ASSUME Connections, [Next]_vars
    PROVE  Connections'
  <1> USE DEF Connections, TypeOK
  <1>1. ASSUME NEW n \in Names, Register(n) PROVE Connections'
    BY <1>1 DEF Register, PoolTypeOK, OnlyInsideHolds, WaitersHoldNothing, Holds, poolVars, unitVars
  <1>2. ASSUME Elsewhere PROVE Connections'
    <2>1. /\ UNCHANGED <<handlers, at, unitVars, raising, caught, sent>>
          /\ PoolTypeOK' /\ waiting' = waiting
          /\ \A s \in Slots : slot'[s].owner = slot[s].owner
      BY <1>2, SurroundingsFacts DEF Elsewhere
    <2>2. QED
      BY <2>1 DEF OnlyInsideHolds, WaitersHoldNothing, Holds, unitVars
  <1>3. ASSUME Kill PROVE Connections'
    <2>1. PoolTypeOK' /\ waiting' = {} /\ \A s \in Slots : slot'[s].owner = Nobody
      BY <1>3, ProcessEndsFacts DEF Kill
    <2>2. at' \in [Frames -> {"unused", "returned", "raised", "killed"} \cup Running]
      BY <1>3 DEF Kill
    <2>3. QED
      BY <1>3, <2>1, <2>2 DEF Kill, OnlyInsideHolds, WaitersHoldNothing
  <1>4. ASSUME UNCHANGED vars PROVE Connections'
    BY <1>4 DEF vars, PoolTypeOK, OnlyInsideHolds, WaitersHoldNothing, Holds
  <1>5. QED
    BY <1>1, <1>2, <1>3, <1>4, CodeKeepsConnections DEF Next

-----------------------------------------------------------------------------
(* The work: what a frame flushed, until it is settled.                    *)

Work ==
    TypeOK /\ Stacked /\ WorkIsTracked /\ AbortedIsSeen /\ UnsettledUnwind /\ LateSettled

(* What is unsettled in one thread is not where another frame goes on.     *)
LEMMA UnsettledElsewhere ==
    ASSUME Work, NEW f \in Frames, Top(f), NEW g \in Frames, Unsettled(g), g # f
    PROVE  Top(g) /\ g[1] \in raising /\ g[1] # f[1]
  <1>1. Top(g) /\ g[1] \in raising
    BY DEF Work, UnsettledUnwind, Unwinds
  <1>2. QED
    BY <1>1, OneTop DEF Work

(* Nothing has happened to the work.                                       *)
LEMMA NoWork ==
    ASSUME Work, raising \subseteq raising', UNCHANGED <<at, unitVars, caught, sent>>
    PROVE  WorkIsTracked' /\ AbortedIsSeen' /\ UnsettledUnwind' /\ LateSettled'
  BY DEF Work, unitVars, WorkIsTracked, AbortedIsSeen, UnsettledUnwind, LateSettled, Unsettled,
     Unwinds, Top, Suspended

LEMMA StartKeepsWork ==
    ASSUME Work, NEW f \in Frames, Start(f)
    PROVE  WorkIsTracked' /\ AbortedIsSeen' /\ UnsettledUnwind' /\ LateSettled'
  <1>1. /\ f[2] = 1 /\ at[f] = "unused" /\ at'[f] = "before"
        /\ \A g \in Frames : g # f => at'[g] = at[g]
        /\ UNCHANGED <<unitVars, raising, caught, sent>>
    BY DEF Start, Move, Work, TypeOK
  <1>2. WorkIsTracked'
    BY <1>1 DEF Work, TypeOK, WorkIsTracked, unitVars
  <1>3. UnsettledUnwind'
    <2>1. ASSUME NEW g \in Frames, Unsettled(g)' PROVE Unwinds(g)'
      <3>1. g # f /\ at'[g] = at[g] /\ Unsettled(g)
        BY <1>1, <2>1 DEF Unsettled, unitVars
      <3>2. Callee(g) # f
        BY <1>1, FrameFacts
      <3>3. Unwinds(g)
        BY <3>1 DEF Work, UnsettledUnwind
      <3>4. QED
        BY <1>1, <3>1, <3>2, <3>3 DEF Unwinds, Top, Suspended
    <2>2. QED
      BY <2>1 DEF UnsettledUnwind
  <1>4. LateSettled'
    BY <1>1, FrameFacts DEF Work, LateSettled, Handling, unitVars
  <1>5. AbortedIsSeen'
    <2>1. ASSUME NEW g \in aborted' PROVE at'[g] \in Inside /\ (g \in caught' \/ Unwinds(g)')
      <3>1. g \in Frames /\ at[g] \in Inside /\ (g \in caught \/ Unwinds(g))
        BY <1>1, <2>1 DEF Work, TypeOK, AbortedIsSeen, unitVars
      <3>2. g # f /\ Callee(g) # f
        BY <1>1, <3>1, FrameFacts DEF Inside
      <3>3. QED
        BY <1>1, <3>1, <3>2 DEF Unwinds, Top, Suspended
    <2>2. QED
      BY <2>1 DEF AbortedIsSeen
  <1>6. QED
    BY <1>2, <1>3, <1>4, <1>5

LEMMA DispatchKeepsWork ==
    ASSUME Work, NEW f \in Frames, NEW n \in Names, Dispatch(f, n)
    PROVE  WorkIsTracked' /\ AbortedIsSeen' /\ UnsettledUnwind' /\ LateSettled'
  <1> DEFINE c == Callee(f)
  <1>1. /\ Top(f) /\ f[1] \notin raising /\ c \in Frames /\ c[1] = f[1] /\ Caller(c) = f
        /\ at[c] = "unused" /\ at'[c] = "before" /\ c # f
        /\ \A g \in Frames : g # c => at'[g] = at[g] /\ sent'[g] = sent[g]
        /\ sent'[c] = at[f]
        /\ UNCHANGED <<unitVars, raising, caught>>
    <2>1. c[1] = f[1] /\ c[2] = f[2] + 1 /\ c \in Frames /\ f[2] \in Nat
      BY FrameFacts DEF Dispatch
    <2>2. Caller(c) = f
      BY <2>1, FrameFacts, FramesAssumption DEF Caller
    <2>3. c # f
      BY <2>1
    <2>4. QED
      BY <2>1, <2>2, <2>3 DEF Dispatch, Goes, Move, Work, TypeOK
  <1> HIDE DEF c
  <1>2. WorkIsTracked'
    BY <1>1 DEF Work, TypeOK, WorkIsTracked, unitVars
  <1>3. UnsettledUnwind'
    <2>1. ASSUME NEW g \in Frames, Unsettled(g)' PROVE Unwinds(g)'
      <3>1. g # c /\ at'[g] = at[g] /\ Unsettled(g)
        BY <1>1, <2>1 DEF Unsettled, unitVars
      <3>2. Unwinds(g)
        BY <3>1 DEF Work, UnsettledUnwind
      <3>3. Callee(g) # c
        BY <1>1, <3>2, FrameFacts DEF Unwinds
      <3>4. QED
        BY <1>1, <3>1, <3>2, <3>3 DEF Unwinds, Top, Suspended
    <2>2. QED
      BY <2>1 DEF UnsettledUnwind
  <1>4. LateSettled'
    <2>1. SUFFICES ASSUME NEW h \in Frames, h[2] > 1, sent'[h] = "after"
                   PROVE  /\ at'[Caller(h)] \notin {"unused", "before"} \cup Inside
                          /\ Caller(h) \in worked' \ caught' => Caller(h) \in durable'
      BY DEF LateSettled, Handling
    <2>2. CASE h = c
      <3>1. at[f] = "after" /\ at'[f] = "after"
        BY <1>1, <2>1, <2>2
      <3>2. ~Unsettled(f)
        BY <1>1 DEF Work, UnsettledUnwind, Unwinds
      <3>3. QED
        BY <1>1, <2>2, <3>1, <3>2 DEF Unsettled, unitVars, Inside
    <2>3. CASE h # c
      <3>1. sent[h] = "after" /\ Caller(h) \in Frames
        BY <1>1, <2>1, <2>3, FrameFacts
      <3>2. /\ at[Caller(h)] \notin {"unused", "before"} \cup Inside
            /\ Caller(h) \in worked \ caught => Caller(h) \in durable
        BY <2>1, <3>1 DEF Work, LateSettled, Handling
      <3>3. QED
        BY <1>1, <3>1, <3>2 DEF unitVars
    <2>4. QED
      BY <2>2, <2>3
  <1>5. AbortedIsSeen'
    <2>1. ASSUME NEW g \in aborted' PROVE at'[g] \in Inside /\ (g \in caught' \/ Unwinds(g)')
      <3>1. g \in Frames /\ at[g] \in Inside /\ (g \in caught \/ Unwinds(g))
        BY <1>1, <2>1 DEF Work, TypeOK, AbortedIsSeen, unitVars
      <3>2. g # c
        BY <1>1, <3>1 DEF Inside
      <3>3. Unwinds(g) => Callee(g) # c
        BY <1>1, <3>1, FrameFacts DEF Unwinds
      <3>4. QED
        BY <1>1, <3>1, <3>2, <3>3 DEF Unwinds, Top, Suspended
    <2>2. QED
      BY <2>1 DEF AbortedIsSeen
  <1>6. QED
    BY <1>2, <1>3, <1>4, <1>5

LEMMA EndingKeepsWork ==
    ASSUME Work, NEW f \in Frames, Finish(f) \/ Unwind(f) \/ Catch(f)
    PROVE  WorkIsTracked' /\ AbortedIsSeen' /\ UnsettledUnwind' /\ LateSettled'
  <1>1. /\ Top(f) /\ UNCHANGED <<unitVars, sent>>
        /\ \A g \in Frames : g # f => at'[g] = at[g]
        /\ (caught' = caught /\ at'[f] \in {"returned", "raised"})
              \/ (caught' = caught \cup {f} /\ at'[f] = at[f])
        /\ at[f] \in Inside => caught' = caught \cup {f} /\ at'[f] = at[f]
        /\ \A t \in raising : t # f[1] => t \in raising'
    BY DEF Finish, Unwind, Catch, Goes, Unwinds, Move, Work, TypeOK, Inside
  <1>2. WorkIsTracked'
    BY <1>1 DEF Work, TypeOK, WorkIsTracked, unitVars, Inside
  <1>3. UnsettledUnwind'
    <2>1. ASSUME NEW g \in Frames, Unsettled(g)' PROVE Unwinds(g)'
      <3>1. g # f /\ at'[g] = at[g] /\ Unsettled(g)
        BY <1>1, <2>1 DEF Unsettled, unitVars
      <3>2. Top(g) /\ g[1] \in raising /\ g[1] # f[1]
        BY <1>1, <3>1, UnsettledElsewhere
      <3>3. Callee(g) \in Frames => Callee(g) # f
        BY <3>2, FrameFacts
      <3>4. QED
        BY <1>1, <3>1, <3>2, <3>3 DEF Unwinds, Top, Suspended
    <2>2. QED
      BY <2>1 DEF UnsettledUnwind
  <1>4. LateSettled'
    <2>1. ASSUME NEW h \in Frames, h[2] > 1, sent'[h] = "after"
          PROVE  /\ at'[Caller(h)] \notin {"unused", "before"} \cup Inside
                 /\ Caller(h) \in worked' \ caught' => Caller(h) \in durable'
      <3>1. /\ Caller(h) \in Frames
            /\ at[Caller(h)] \notin {"unused", "before"} \cup Inside
            /\ Caller(h) \in worked \ caught => Caller(h) \in durable
        BY <1>1, <2>1, FrameFacts DEF Work, LateSettled, Handling
      <3>2. QED
        BY <1>1, <3>1 DEF unitVars, Inside
    <2>2. QED
      BY <2>1 DEF LateSettled, Handling
  <1>5. AbortedIsSeen'
    <2>1. ASSUME NEW g \in aborted' PROVE at'[g] \in Inside /\ (g \in caught' \/ Unwinds(g)')
      <3>1. g \in Frames /\ at[g] \in Inside /\ (g \in caught \/ Unwinds(g))
        BY <1>1, <2>1 DEF Work, TypeOK, AbortedIsSeen, unitVars
      <3>2. CASE g = f
        BY <1>1, <3>1, <3>2
      <3>3. CASE g # f /\ g \in caught
        BY <1>1, <3>1, <3>3
      <3>4. CASE g # f /\ Unwinds(g)
        <4>1. g[1] # f[1]
          BY <1>1, <3>1, <3>4, OneTop DEF Work, Unwinds
        <4>2. Callee(g) \in Frames => Callee(g) # f
          BY <3>1, <4>1, FrameFacts
        <4>3. QED
          BY <1>1, <3>1, <3>4, <4>1, <4>2 DEF Unwinds, Top, Suspended
      <3>5. QED
        BY <3>1, <3>2, <3>3, <3>4
    <2>2. QED
      BY <2>1 DEF AbortedIsSeen
  <1>6. QED
    BY <1>2, <1>3, <1>4, <1>5

(* The steps of the unit of a frame: the frame is running before and       *)
(* after, and leaves its block only with its work settled or unwinding.    *)
LEMMA UnitKeepsWork ==
    ASSUME Work, NEW f \in Frames,
           \/ Enter(f) \/ Flush(f) \/ FlushFails(f) \/ StatementFails(f) \/ Flushed(f)
           \/ Leave(f) \/ LeaveRaising(f)
    PROVE  WorkIsTracked' /\ AbortedIsSeen' /\ UnsettledUnwind' /\ LateSettled'
  <1> USE DEF Work, TypeOK
  <1>1. /\ Top(f) /\ at[f] \in {"before"} \cup Inside /\ at'[f] \in Inside \cup {"after"}
        /\ \A g \in Frames : g # f => at'[g] = at[g]
        /\ caught' = caught /\ sent' = sent /\ raising \subseteq raising'
    BY DEF Enter, Flush, FlushFails, StatementFails, Flushed, Leave, LeaveRaising, Goes, Unwinds,
           Move, Inside
  <1>2. /\ \A g \in Frames : g # f =>
              /\ g \in worked' <=> g \in worked
              /\ g \in wrote' <=> g \in wrote
              /\ g \in poisoned' <=> g \in poisoned
              /\ g \in aborted' <=> g \in aborted
              /\ g \in durable' <=> g \in durable
        /\ durable \subseteq durable' /\ worked' \subseteq worked \cup {f}
        /\ aborted' \subseteq aborted \cup {f}
    BY DEF Enter, Flush, FlushFails, StatementFails, Flushed, Leave, LeaveRaising, Close, unitVars
  <1>3. f \in worked' /\ at'[f] \in Inside => f \in wrote' \cup poisoned' \cup aborted'
    <2>1. CASE Enter(f)
      BY <2>1 DEF Enter, WorkIsTracked, unitVars
    <2>2. CASE Flush(f)
      BY <2>2 DEF Flush
    <2>3. CASE FlushFails(f) \/ StatementFails(f) \/ Flushed(f)
      BY <2>3 DEF FlushFails, StatementFails, Flushed
    <2>4. CASE Leave(f) \/ LeaveRaising(f)
      BY <2>4 DEF Leave, LeaveRaising, Move, Inside
    <2>5. QED
      BY <2>1, <2>2, <2>3, <2>4
  <1>4. f \in aborted' => at'[f] \in Inside /\ (f \in caught \/ f[1] \in raising')
    <2>1. CASE Enter(f)
      BY <2>1 DEF Enter, AbortedIsSeen, Inside, unitVars
    <2>2. CASE Flush(f)
      BY <2>2 DEF Flush, AbortedIsSeen, Unwinds, Move, Inside
    <2>3. CASE FlushFails(f) \/ StatementFails(f)
      BY <2>3 DEF FlushFails, StatementFails, Move, Inside
    <2>4. CASE Flushed(f) \/ Leave(f) \/ LeaveRaising(f)
      BY <2>4 DEF Flushed, Leave, LeaveRaising, Close
    <2>5. QED
      BY <2>1, <2>2, <2>3, <2>4
  <1>5. f \in worked' \ (caught \cup durable') /\ at'[f] = "after" => f[1] \in raising'
    <2>1. CASE Leave(f)
      <3>1. at[f] = "inside" /\ worked' = worked /\ f[1] \notin raising
        BY <2>1 DEF Leave, Goes
      <3>2. f \in worked => f \in wrote \cup poisoned \cup aborted
        BY <3>1 DEF WorkIsTracked, Inside
      <3>3. f \in aborted => f \in caught
        BY <3>1 DEF AbortedIsSeen, Unwinds
      <3>4. QED
        BY <2>1, <3>1, <3>2, <3>3 DEF Leave, Lost
    <2>2. CASE LeaveRaising(f)
      BY <2>2 DEF LeaveRaising, Unwinds
    <2>3. CASE Enter(f) \/ Flush(f) \/ FlushFails(f) \/ StatementFails(f) \/ Flushed(f)
      BY <2>3 DEF Enter, Flush, FlushFails, StatementFails, Flushed, Move
    <2>4. QED
      BY <2>1, <2>2, <2>3
  <1>6. \A g \in Frames : at'[g] \in Running <=> at[g] \in Running
    BY <1>1 DEF Running, Inside
  <1>7. \A g \in Frames : Top(g) => Top(g)'
    BY <1>6 DEF Top, Suspended
  <1>8. WorkIsTracked'
    <2>1. worked' \subseteq Frames
      BY <1>2
    <2>2. QED
      BY <1>1, <1>2, <1>3, <2>1 DEF WorkIsTracked, Inside
  <1>9. UnsettledUnwind'
    <2>1. ASSUME NEW g \in Frames, Unsettled(g)' PROVE Unwinds(g)'
      <3>1. CASE g = f
        <4>1. f[1] \in raising'
          BY <1>1, <1>5, <2>1, <3>1 DEF Unsettled
        <4>2. QED
          BY <1>1, <1>7, <3>1, <4>1 DEF Unwinds
      <3>2. CASE g # f
        <4>1. Unsettled(g)
          BY <1>1, <1>2, <2>1, <3>2 DEF Unsettled
        <4>2. Unwinds(g)
          BY <4>1 DEF UnsettledUnwind
        <4>3. QED
          BY <1>1, <1>7, <4>2 DEF Unwinds
      <3>3. QED
        BY <3>1, <3>2
    <2>2. QED
      BY <2>1 DEF UnsettledUnwind
  <1>10. AbortedIsSeen'
    <2>1. ASSUME NEW g \in aborted' PROVE at'[g] \in Inside /\ (g \in caught' \/ Unwinds(g)')
      <3>1. CASE g = f
        BY <1>1, <1>4, <1>7, <2>1, <3>1 DEF Unwinds
      <3>2. CASE g # f
        <4>1. g \in Frames /\ g \in aborted
          BY <1>2, <2>1, <3>2
        <4>2. at[g] \in Inside /\ (g \in caught \/ Unwinds(g))
          BY <4>1 DEF AbortedIsSeen
        <4>3. QED
          BY <1>1, <1>7, <3>2, <4>1, <4>2 DEF Unwinds
      <3>3. QED
        BY <3>1, <3>2
    <2>2. QED
      BY <2>1 DEF AbortedIsSeen
  <1>11. LateSettled'
    <2>1. ASSUME NEW h \in Frames, h[2] > 1, sent'[h] = "after"
          PROVE  /\ at'[Caller(h)] \notin {"unused", "before"} \cup Inside
                 /\ Caller(h) \in worked' \ caught' => Caller(h) \in durable'
      <3>1. /\ Caller(h) \in Frames
            /\ at[Caller(h)] \notin {"unused", "before"} \cup Inside
            /\ Caller(h) \in worked \ caught => Caller(h) \in durable
        BY <1>1, <2>1, FrameFacts DEF LateSettled, Handling
      <3>2. Caller(h) # f
        BY <1>1, <3>1
      <3>3. QED
        BY <1>1, <1>2, <3>1, <3>2
    <2>2. QED
      BY <2>1 DEF LateSettled, Handling
  <1>12. QED
    BY <1>8, <1>9, <1>10, <1>11

LEMMA KillKeepsWork ==
    ASSUME Work, Kill
    PROVE  WorkIsTracked' /\ AbortedIsSeen' /\ UnsettledUnwind' /\ LateSettled'
  <1> USE DEF Work, TypeOK
  <1>1. /\ \A f \in Frames : at'[f] = IF at[f] \in Running THEN "killed" ELSE at[f]
        /\ UNCHANGED <<durable, worked, caught, sent>>
    BY DEF Kill
  <1>2. \A f \in Frames : at'[f] \notin Running /\ (at'[f] = "unused" => at[f] = "unused")
    BY <1>1 DEF Running, Inside
  <1>3. WorkIsTracked' /\ AbortedIsSeen' /\ UnsettledUnwind'
    BY <1>1, <1>2 DEF Kill, WorkIsTracked, AbortedIsSeen, UnsettledUnwind, Unsettled, Running
  <1>4. LateSettled'
    BY <1>1, <1>2, FrameFacts DEF LateSettled, Handling, Running
  <1>5. QED
    BY <1>3, <1>4

LEMMA StepKeepsWork ==
    ASSUME Work, [Next]_vars
    PROVE  WorkIsTracked' /\ AbortedIsSeen' /\ UnsettledUnwind' /\ LateSettled'
  <1>1. ASSUME NEW f \in Frames, Code(f) PROVE WorkIsTracked' /\ AbortedIsSeen' /\ UnsettledUnwind' /\ LateSettled'
    <2>1. ASSUME NEW n \in Names, NEW sensitive \in BOOLEAN, DispatchRefused(f, n, sensitive)
          PROVE  WorkIsTracked' /\ AbortedIsSeen' /\ UnsettledUnwind' /\ LateSettled'
      BY <2>1, NoWork DEF DispatchRefused
    <2>2. ASSUME Raise(f) \/ Checkout(f) \/ Connected(f)
          PROVE  WorkIsTracked' /\ AbortedIsSeen' /\ UnsettledUnwind' /\ LateSettled'
      BY <2>2, NoWork DEF Raise, Checkout, Connected
    <2>3. QED
      BY <1>1, <2>1, <2>2, DispatchKeepsWork, EndingKeepsWork, UnitKeepsWork DEF Code
  <1>2. ((\E n \in Names : Register(n)) \/ Elsewhere \/ UNCHANGED vars)
           => UNCHANGED <<at, unitVars, caught, sent, raising>>
    BY DEF Register, Elsewhere, vars, unitVars
  <1>3. QED
    BY <1>1, <1>2, NoWork, StartKeepsWork, KillKeepsWork DEF Next

-----------------------------------------------------------------------------
(* What follows, for any threads, any depth and any pool.                  *)

(* The strengthening the properties follow from.                           *)
THEOREM Inductive == Spec => []IInv
  <1>1. Init => IInv
    <2>1. Init => TypeOK
      BY PoolSizeAssumption DEF Init, PoolInit, TypeOK, PoolTypeOK, Links
    <2>2. Init => OnlyInsideHolds /\ WaitersHoldNothing
      BY DEF Init, PoolInit, OnlyInsideHolds, WaitersHoldNothing
    <2>3. Init => Stacked /\ FailureIsSeen
      BY DEF Init, Stacked, FailureIsSeen, Handling, Running, Inside
    <2>4. Init => WorkIsTracked /\ AbortedIsSeen /\ UnsettledUnwind /\ LateSettled
      BY DEF Init, WorkIsTracked, AbortedIsSeen, UnsettledUnwind, Unsettled, LateSettled, Handling
    <2>5. QED
      BY <2>1, <2>2, <2>3, <2>4 DEF IInv
  <1>2. IInv /\ [Next]_vars => IInv'
    <2>1. IInv => Connections /\ Stack /\ Work
      BY DEF IInv, Connections, Stack, Work
    <2>2. QED
      BY <2>1, StepKeepsConnections, StepKeepsStack, StepKeepsWork
      DEF IInv, Connections
  <1>3. QED
    BY <1>1, <1>2, PTL DEF Spec

(* inline.py:47-79: every variable stays within its type.                  *)
THEOREM TypeCorrect == Spec => []TypeOK
  <1>1. IInv => TypeOK
    BY DEF IInv
  <1>2. QED
    BY <1>1, Inductive, PTL

(* unit_of_work.py:70-72 with inline.py:70-76: whatever an exception       *)
(* unwinds, only frames inside their block have or want a connection.      *)
THEOREM ExceptionsLeakNothing == Spec => []OnlyInsideHolds
  <1>1. IInv => OnlyInsideHolds
    BY DEF IInv
  <1>2. QED
    BY <1>1, Inductive, PTL

(* inline.py:73-76: the failure of a handler reaches its caller, through   *)
(* any number of tasks that dispatched tasks.                              *)
THEOREM FailuresAreSeen == Spec => []FailureIsSeen
  <1>1. IInv => FailureIsSeen
    BY DEF IInv
  <1>2. QED
    BY <1>1, Inductive, PTL

(* task_dispatcher.py:14: a task dispatched after the block is justified,  *)
(* unless its caller swallowed an exception.                               *)
THEOREM LateTasksJustified == Spec => []LateTasksAreJustified
  <1>1. IInv => LateTasksAreJustified
    BY DEF IInv, LateSettled, LateTasksAreJustified
  <1>2. QED
    BY <1>1, Inductive, PTL
=============================================================================
