-------------------------- MODULE UvcSourceProofs --------------------------
(***************************************************************************)
(* UvcSource, for every timeout count, retry limit, proof length, property *)
(* set, queue bound and session length: its safety properties, and that it *)
(* implements LossyLink.                                                   *)
(*                                                                         *)
(* None of the properties is inductive.  IInv, at the end, is: it adds     *)
(* what each position of create() says about the session (AtDevice and     *)
(* Apart), which positions of the app thread leave create() idle, and what *)
(* the queue owes to the frames already captured.                          *)
(***************************************************************************)
EXTENDS UvcSource, TLAPS

\* The count of proof frames is below its limit while the one-shot is spent.
TypeInv ==
    /\ TypeOK
    /\ reset_recovery_used => frames_since_reset < ResetRearmFrames

\* What the queue holds.
Items == Frame \cup {FLUSH_SENTINEL}

\* The app thread: where each state change stands with the flag, and when the
\* streaming task is known to be out of create().
AppInv ==
    /\ appPc = "idle" => target = app
    /\ appPc \in {"push", "cast"} =>
           flushing /\ <<app, target>> \in {<<"PLAYING", "PAUSED">>,
                                            <<"PAUSED", "READY">>}
    /\ appPc = "join" => flushing /\ app = "PAUSED" /\ target = "READY"
    /\ appPc \in {"clear", "drop"} =>
           app = "PAUSED" /\ target \in {"PLAYING", "READY"}
    /\ appPc = "stop" => app = "PAUSED" /\ target = "READY"
    /\ appPc \in {"drop", "stop"} \/ (appPc = "idle" /\ app # "PAUSED") =>
           ~flushing
    /\ app = "READY" => appPc = "idle"
    /\ target = "READY" /\ appPc \in {"idle", "clear", "drop", "stop"} =>
           pc = "idle"

\* Positions of create() that have a running stream; positions between a
\* teardown and the next reopen, which have none.
AtDevice == {"pop", "got", "silence", "reset", "teardown", "await",
             "awaitGot"}
Apart == {"drain", "reinit", "settle", "reopen", "wait", "parked",
          "deepGate", "deepHold"}

\* The libuvc session, position by position.
SessionInv ==
    /\ uvc_devh # "NULL" => uvc_ctx # "NULL"
    /\ running => uvc_devh # "NULL"
    /\ StreamingIsRunning
    /\ pc \in AtDevice => streaming /\ running
    /\ running => streaming
    /\ pc = "starting" => streaming /\ ~running
    /\ pc \in {"await", "awaitGot"} => ladder # "reconnect"
    /\ pc \in {"idle", "starting", "pop", "got", "silence", "reset"} =>
           ladder = "none"
    /\ pc \in Apart => uvc_devh = "NULL"
    /\ pc = "opened" => uvc_devh # "NULL" /\ ~running /\ ~streaming
    /\ uvc_ctx = "stale" => \/ pc = "reinit"
                            \/ pc \in {"teardown", "drain"} /\ after = "reinit"
    /\ pc \in {"teardown", "drain"} =>
           (ladder = "reconnect" <=> after = "wait") /\ after # "reopen"
    /\ pc \notin {"got", "awaitGot"} => item = NoItem
    /\ app = "READY" => /\ uvc_ctx = "NULL" /\ frame_queue = <<>>

\* Wherever a raised flag finds create(), something is left to wake it.
FlushInv ==
    /\ flushing /\ appPc \notin {"push", "cast"} => pc # "parked"
    /\ flushing /\ appPc # "push" =>
          \/ frame_queue # <<>>
          \/ pc \notin {"pop", "await", "reopen", "opened", "starting",
                        "idle"}
          \/ pc = "idle" /\ flow # "OK"

\* Without a running stream there is no frame queued, so a new epoch starts
\* from an empty queue.
FrameInv ==
    /\ NoStaleFrame
    /\ ~running /\ pc # "drain" => Frames(frame_queue) = {}

\* The code's counter never runs ahead of the frames really delivered.
ProofInv ==
    /\ ~reset_recovery_used => proof = ResetRearmFrames
    /\ reset_recovery_used => frames_since_reset <= proof
    /\ reset_recovery_used => frames_since_reset < ResetRearmFrames
    /\ pc = "reset" => /\ reset_recovery_used /\ frames_since_reset = 0
                       /\ proof = ResetRearmFrames

\* Offsets grow from the last delivered frame through the item in hand and
\* along the queue to the next one to be captured.
LinkInv ==
    /\ lastOff < frame_offset
    /\ IsFrame(item) => lastOff < item.off /\ item.off < frame_offset
    /\ \A i \in Frames(frame_queue) :
          /\ lastOff < frame_queue[i].off
          /\ frame_queue[i].off < frame_offset
          /\ IsFrame(item) => item.off < frame_queue[i].off
    /\ \A i, j \in Frames(frame_queue) :
          i < j => frame_queue[i].off < frame_queue[j].off

\* A fresh epoch's first frame is an IDR, wherever it is; a handle without a
\* stream has its IDR gate closed, but for the one a reopen has just opened.
LeadInv ==
    /\ uvc_devh # "NULL" /\ ~running /\ pc # "opened" => ~had_idr
    /\ lead = "fresh" /\ running /\ IsFrame(item) => item.key
    /\ lead = "fresh" /\ running /\ ~IsFrame(item) =>
          /\ Frames(frame_queue) = {} => ~had_idr
          /\ \A i \in Frames(frame_queue) :
                (\A j \in Frames(frame_queue) : i <= j) => frame_queue[i].key

\* A pop takes the first item away and moves the other frames by one.
LEMMA FramesOfTail ==
    ASSUME NEW q \in Seq(Items), q # <<>>
    PROVE  /\ Head(q) = q[1]
           /\ IsFrame(Head(q)) <=> 1 \in Frames(q)
           /\ \A i \in Frames(Tail(q)) :
                 /\ i \in Nat \ {0} /\ i + 1 \in Frames(q)
                 /\ Tail(q)[i] = q[i + 1]
           /\ \A i \in Frames(q) :
                 i \in Nat \ {0} /\ (i = 1 \/ i - 1 \in Frames(Tail(q)))
<1> USE DEF Frames
<1>1. Len(q) \in Nat /\ Len(q) # 0 /\ DOMAIN q = 1 .. Len(q) /\ Head(q) = q[1]
  OBVIOUS
<1>2. /\ DOMAIN Tail(q) = 1 .. (Len(q) - 1)
      /\ \A i \in 1 .. (Len(q) - 1) : Tail(q)[i] = q[i + 1]
  OBVIOUS
<1> QED
  BY <1>1, <1>2

\* A push adds at most the pushed frame, at the end.
LEMMA FramesOfAppend ==
    ASSUME NEW q \in Seq(Items), NEW x \in Items
    PROVE  /\ Append(q, x) # <<>>
           /\ \A i \in Frames(q) :
                 /\ i \in Frames(Append(q, x)) /\ i \in 1 .. Len(q)
                 /\ Append(q, x)[i] = q[i]
           /\ \A i \in Frames(Append(q, x)) :
                 \/ i \in Frames(q)
                 \/ i = Len(q) + 1 /\ Append(q, x)[i] = x /\ IsFrame(x)
<1> USE DEF Frames
<1>1. Len(q) \in Nat /\ DOMAIN q = 1 .. Len(q)
  OBVIOUS
<1>2. /\ DOMAIN Append(q, x) = 1 .. (Len(q) + 1)
      /\ Append(q, x)[Len(q) + 1] = x
      /\ \A i \in 1 .. Len(q) : Append(q, x)[i] = q[i]
  OBVIOUS
<1> QED
  BY <1>1, <1>2

\* A frame put back at the head moves the others by one.
LEMMA FramesOfPushFront ==
    ASSUME NEW q \in Seq(Items), NEW x \in Items, IsFrame(x)
    PROVE  /\ PushFront(x, q)[1] = x /\ 1 \in Frames(PushFront(x, q))
           /\ \A i \in Frames(PushFront(x, q)) :
                 /\ i \in Nat \ {0}
                 /\ i # 1 => /\ i - 1 \in Frames(q)
                             /\ PushFront(x, q)[i] = q[i - 1]
<1> USE DEF Frames, PushFront
<1>1. Len(q) \in Nat /\ DOMAIN q = 1 .. Len(q)
  OBVIOUS
<1>2. Len(PushFront(x, q)) = Len(q) + 1 /\ PushFront(x, q) \in Seq(Items)
  OBVIOUS
<1>3. /\ PushFront(x, q)[1] = x
      /\ \A i \in 2 .. (Len(q) + 1) : PushFront(x, q)[i] = q[i - 1]
  BY <1>1, <1>2
<1>4. DOMAIN PushFront(x, q) = 1 .. (Len(q) + 1)
  BY <1>2
<1> QED
  BY <1>1, <1>3, <1>4

-----------------------------------------------------------------------------
(* One lemma per part of the invariant, one step per action.               *)

\* Types are preserved.
LEMMA TypeStep == TypeInv /\ [Next]_vars => TypeInv'
<1> SUFFICES ASSUME TypeInv, [Next]_vars PROVE TypeInv'
  OBVIOUS
<1> USE TimeoutsAssumption, RetriesAssumption, RearmAssumption,
    BoundsAssumption
    DEF TypeInv, TypeOK, Pcs, vars, session, capture, position, oneShots,
        appVars, camera, history
<1>1. CASE Start
  <2>1. /\ had_idr' \in BOOLEAN /\ reset_recovery_used' \in BOOLEAN
        /\ deep_recovery_used' \in BOOLEAN
    BY <1>1, Zenon DEF Start
  <2> QED
    BY <1>1, <2>1 DEF Start
<1>2. CASE UnlockSet
  BY <1>2 DEF UnlockSet
<1>3. CASE UnlockPush
  BY <1>3 DEF UnlockPush, PushSentinel
<1>4. CASE UnlockCast
  BY <1>4 DEF UnlockCast, Broadcast
<1>5. CASE Join
  BY <1>5 DEF Join
<1>6. CASE Play
  BY <1>6 DEF Play
<1>7. CASE UnlockStopClear
  <2>1. flushing' \in BOOLEAN
    BY <1>7, Zenon DEF UnlockStopClear
  <2> QED
    BY <1>7, <2>1 DEF UnlockStopClear
<1>8. CASE UnlockStopDrop
  BY <1>8 DEF UnlockStopDrop, Dropped
<1>9. CASE Stop
  <2>1. running' \in BOOLEAN /\ streaming' \in BOOLEAN
    BY <1>9, Zenon DEF Stop, Dropped, CloseAll
  <2> QED
    BY <1>9, <2>1 DEF Stop, Dropped, CloseAll
<1>10. CASE SetProperties
  BY <1>10 DEF SetProperties
<1>11. CASE CallCreate
  BY <1>11 DEF CallCreate
<1>12. CASE StartStreaming
  <2>1. running' \in BOOLEAN /\ streaming' \in BOOLEAN
    BY <1>12, Zenon DEF StartStreaming, NewEpoch
  <2> QED
    BY <1>12, <2>1 DEF StartStreaming, NewEpoch
<1>13. CASE Pop
  BY <1>13 DEF Pop, PopItem
<1>14. CASE PopTimeout
  BY <1>14 DEF PopTimeout, Saturate
<1>15. CASE GotFlush
  BY <1>15 DEF GotFlush, Dropped
<1>16. CASE GotTimeout
  BY <1>16 DEF GotTimeout, Saturate
<1>17. CASE GotSentinel
  BY <1>17 DEF GotSentinel
<1>18. CASE GotFrame
  BY <1>18 DEF GotFrame, Rearm, Saturate, IsFrame, Frame
<1>19. CASE Silence
  <2>1. reset_recovery_used' \in BOOLEAN
    BY <1>19, Zenon DEF Silence
  <2> QED
    BY <1>19, <2>1 DEF Silence
<1>20. CASE Verdict
  <2>1. expired' \in BOOLEAN
    BY <1>20, Zenon DEF Verdict, LadderEnds
  <2> QED
    BY <1>20, <2>1 DEF Verdict, LadderEnds
<1>21. CASE PortReset
  <2>1. present' \in BOOLEAN /\ wedged' \in BOOLEAN /\ expired' \in BOOLEAN
    BY <1>21, Zenon DEF PortReset
  <2> QED
    BY <1>21, <2>1 DEF PortReset
<1>22. CASE TeardownHandle
  <2>1. running' \in BOOLEAN /\ streaming' \in BOOLEAN
    BY <1>22, Zenon DEF TeardownHandle, CloseHandle
  <2> QED
    BY <1>22, <2>1 DEF TeardownHandle, CloseHandle
<1>23. CASE DrainQueue
  BY <1>23 DEF DrainQueue, Dropped, Drained
<1>24. CASE ReinitContext
  BY <1>24 DEF ReinitContext, FreshContext
<1>25. CASE Settle
  BY <1>25 DEF Settle, SettleOver, SettleFailed
<1>26. CASE BudgetExpires
  BY <1>26 DEF BudgetExpires
<1>27. CASE ReopenStarts
  <2>1. had_idr' \in BOOLEAN /\ streaming' \in BOOLEAN /\ running' \in BOOLEAN
    BY <1>27, Zenon DEF ReopenStarts, RearmCapture, NewEpoch, LadderEnds
  <2>2. expired' \in BOOLEAN
    BY <1>27, Zenon DEF ReopenStarts, LadderEnds
  <2> QED
    BY <1>27, <2>1, <2>2 DEF ReopenStarts, RearmCapture, NewEpoch, LadderEnds
<1>28. CASE ReopenFails
  BY <1>28 DEF ReopenFails, ReopenFailed
<1>29. CASE ReopenPolls
  BY <1>29 DEF ReopenPolls
<1>30. CASE Wait
  BY <1>30 DEF Wait, Interrupted, MayPark, SettleFailed
<1>31. CASE WaitExpires
  BY <1>31 DEF WaitExpires, Interrupted, SettleFailed
<1>32. CASE AwaitPop
  BY <1>32 DEF AwaitPop, PopItem
<1>33. CASE AwaitTimeout
  BY <1>33 DEF AwaitTimeout, NoProof
<1>34. CASE AwaitFlush
  BY <1>34 DEF AwaitFlush, Dropped, NoProof
<1>35. CASE AwaitSentinel
  BY <1>35 DEF AwaitSentinel, NoProof
<1>36. CASE AwaitFrame
  <2>1. expired' \in BOOLEAN
    BY <1>36, Zenon DEF AwaitFrame, LadderEnds
  <2> QED
    BY <1>36, <2>1 DEF AwaitFrame, PushFront, IsFrame, LadderEnds
<1>37. CASE DeepRecovery
  <2>1. /\ present' \in BOOLEAN /\ wedged' \in BOOLEAN
        /\ expired' \in BOOLEAN /\ deep_recovery_used' \in BOOLEAN
    BY <1>37, Zenon DEF DeepRecovery, DeepActed
  <2> QED
    BY <1>37, <2>1 DEF DeepRecovery, DeepActed
<1>38. CASE DeepSkipped
  BY <1>38 DEF DeepSkipped
<1>39. CASE FrameCallback
  BY <1>39 DEF FrameCallback, Frame
<1>40. CASE Unplug
  <2>1. present' \in BOOLEAN /\ wedged' \in BOOLEAN
    BY <1>40, Zenon DEF Unplug
  <2> QED
    BY <1>40, <2>1 DEF Unplug
<1>41. CASE Plug
  BY <1>41 DEF Plug
<1>42. CASE Wedge
  BY <1>42 DEF Wedge
<1>43. CASE UNCHANGED vars
  BY <1>43
<1>44. CASE ReopenOpens
  BY <1>44 DEF ReopenOpens
<1>45. CASE ReopenCloses
  <2>1. had_idr' \in BOOLEAN
    BY <1>45, Zenon DEF ReopenCloses
  <2> QED
    BY <1>45, <2>1 DEF ReopenCloses, CloseReopened, ReopenFailed
<1>46. CASE DeepHoldEnds
  <2>1. /\ present' \in BOOLEAN /\ wedged' \in BOOLEAN
        /\ expired' \in BOOLEAN /\ deep_recovery_used' \in BOOLEAN
    BY <1>46, Zenon DEF DeepHoldEnds, DeepActed
  <2> QED
    BY <1>46, <2>1 DEF DeepHoldEnds, DeepActed
<1>47. QED
  BY <1>1, <1>2, <1>3, <1>4, <1>5, <1>6, <1>7, <1>8, <1>9, <1>10, <1>11,
      <1>12, <1>13, <1>14, <1>15, <1>16, <1>17, <1>18, <1>19, <1>20, <1>21,
      <1>22, <1>23, <1>24, <1>25, <1>26, <1>27, <1>28, <1>29, <1>30, <1>31,
      <1>32, <1>33, <1>34, <1>35, <1>36, <1>37, <1>38, <1>39, <1>40, <1>41,
      <1>42, <1>43, <1>44, <1>45, <1>46
  DEF Next, StreamSteps, Timers, AppProceeds, AppBegins, Camera

\* So is the app thread's bookkeeping, which needs nothing of the session.
LEMMA AppStep == TypeInv /\ AppInv /\ [Next]_vars => AppInv'
<1> SUFFICES ASSUME TypeInv, AppInv, [Next]_vars PROVE AppInv'
  OBVIOUS
<1> USE RearmAssumption, SentinelAssumption DEF TypeInv, TypeOK, Pcs, vars,
    session, capture, position, oneShots, appVars, camera, history, AppInv
<1>1. CASE Start
  BY <1>1 DEF Start
<1>2. CASE UnlockSet
  BY <1>2 DEF UnlockSet
<1>3. CASE UnlockPush
  BY <1>3 DEF UnlockPush, PushSentinel
<1>4. CASE UnlockCast
  BY <1>4 DEF UnlockCast, Broadcast
<1>5. CASE Join
  BY <1>5 DEF Join
<1>6. CASE Play
  BY <1>6 DEF Play
<1>7. CASE UnlockStopClear
  BY <1>7 DEF UnlockStopClear
<1>8. CASE UnlockStopDrop
  BY <1>8 DEF UnlockStopDrop, Dropped
<1>9. CASE Stop
  BY <1>9 DEF Stop, Dropped, CloseAll
<1>10. CASE SetProperties
  BY <1>10 DEF SetProperties
<1>11. CASE CallCreate
  BY <1>11 DEF CallCreate
<1>12. CASE StartStreaming
  BY <1>12 DEF StartStreaming, NewEpoch
<1>13. CASE Pop
  BY <1>13 DEF Pop, PopItem
<1>14. CASE PopTimeout
  BY <1>14 DEF PopTimeout, Saturate
<1>15. CASE GotFlush
  BY <1>15 DEF GotFlush, Dropped
<1>16. CASE GotTimeout
  BY <1>16 DEF GotTimeout, Saturate
<1>17. CASE GotSentinel
  BY <1>17 DEF GotSentinel
<1>18. CASE GotFrame
  BY <1>18 DEF GotFrame, Rearm, Saturate, IsFrame, Frame
<1>19. CASE Silence
  BY <1>19 DEF Silence
<1>20. CASE Verdict
  BY <1>20 DEF Verdict, LadderEnds
<1>21. CASE PortReset
  BY <1>21 DEF PortReset
<1>22. CASE TeardownHandle
  BY <1>22 DEF TeardownHandle, CloseHandle
<1>23. CASE DrainQueue
  BY <1>23 DEF DrainQueue, Dropped, Drained
<1>24. CASE ReinitContext
  BY <1>24 DEF ReinitContext, FreshContext
<1>25. CASE Settle
  BY <1>25 DEF Settle, SettleOver, SettleFailed
<1>26. CASE BudgetExpires
  BY <1>26 DEF BudgetExpires
<1>27. CASE ReopenStarts
  BY <1>27 DEF ReopenStarts, RearmCapture, NewEpoch, LadderEnds
<1>28. CASE ReopenFails
  BY <1>28 DEF ReopenFails, ReopenFailed
<1>29. CASE ReopenPolls
  BY <1>29 DEF ReopenPolls
<1>30. CASE Wait
  BY <1>30 DEF Wait, Interrupted, MayPark, SettleFailed
<1>31. CASE WaitExpires
  BY <1>31 DEF WaitExpires, Interrupted, SettleFailed
<1>32. CASE AwaitPop
  BY <1>32 DEF AwaitPop, PopItem
<1>33. CASE AwaitTimeout
  BY <1>33 DEF AwaitTimeout, NoProof
<1>34. CASE AwaitFlush
  BY <1>34 DEF AwaitFlush, Dropped, NoProof
<1>35. CASE AwaitSentinel
  BY <1>35 DEF AwaitSentinel, NoProof
<1>36. CASE AwaitFrame
  BY <1>36 DEF AwaitFrame, PushFront, IsFrame, LadderEnds
<1>37. CASE DeepRecovery
  BY <1>37 DEF DeepRecovery, DeepActed
<1>38. CASE DeepSkipped
  BY <1>38 DEF DeepSkipped
<1>39. CASE FrameCallback
  BY <1>39 DEF FrameCallback, Frame
<1>40. CASE Unplug
  BY <1>40 DEF Unplug
<1>41. CASE Plug
  BY <1>41 DEF Plug
<1>42. CASE Wedge
  BY <1>42 DEF Wedge
<1>43. CASE UNCHANGED vars
  BY <1>43
<1>44. CASE ReopenOpens
  BY <1>44 DEF ReopenOpens
<1>45. CASE ReopenCloses
  BY <1>45 DEF ReopenCloses, CloseReopened, ReopenFailed
<1>46. CASE DeepHoldEnds
  BY <1>46 DEF DeepHoldEnds, DeepActed
<1>47. QED
  BY <1>1, <1>2, <1>3, <1>4, <1>5, <1>6, <1>7, <1>8, <1>9, <1>10, <1>11,
      <1>12, <1>13, <1>14, <1>15, <1>16, <1>17, <1>18, <1>19, <1>20, <1>21,
      <1>22, <1>23, <1>24, <1>25, <1>26, <1>27, <1>28, <1>29, <1>30, <1>31,
      <1>32, <1>33, <1>34, <1>35, <1>36, <1>37, <1>38, <1>39, <1>40, <1>41,
      <1>42, <1>43, <1>44, <1>45, <1>46
  DEF Next, StreamSteps, Timers, AppProceeds, AppBegins, Camera

\* The session follows create() and is out of reach of the app thread until
\* the task is joined.
LEMMA SessionStep ==
    TypeInv /\ AppInv /\ SessionInv /\ [Next]_vars => SessionInv'
<1> SUFFICES ASSUME TypeInv, AppInv, SessionInv, [Next]_vars PROVE SessionInv'
  OBVIOUS
<1> USE RearmAssumption, SentinelAssumption DEF TypeInv, TypeOK, Pcs, vars,
    session, capture, position, oneShots, appVars, camera, history, AppInv,
    SessionInv, AtDevice, Apart, StreamingIsRunning, AtDevice, Apart
<1>1. CASE Start
  BY <1>1 DEF Start
<1>2. CASE UnlockSet
  BY <1>2 DEF UnlockSet
<1>3. CASE UnlockPush
  BY <1>3 DEF UnlockPush, PushSentinel
<1>4. CASE UnlockCast
  BY <1>4 DEF UnlockCast, Broadcast
<1>5. CASE Join
  BY <1>5 DEF Join
<1>6. CASE Play
  BY <1>6 DEF Play
<1>7. CASE UnlockStopClear
  BY <1>7 DEF UnlockStopClear
<1>8. CASE UnlockStopDrop
  BY <1>8 DEF UnlockStopDrop, Dropped
<1>9. CASE Stop
  BY <1>9 DEF Stop, Dropped, CloseAll
<1>10. CASE SetProperties
  BY <1>10 DEF SetProperties
<1>11. CASE CallCreate
  BY <1>11 DEF CallCreate
<1>12. CASE StartStreaming
  <2>1. CASE /\ uvc_devh = "live" /\ running' = TRUE /\ pc' = "pop"
             /\ NewEpoch /\ UNCHANGED <<streaming, flow>>
    BY <1>12, <2>1 DEF StartStreaming, NewEpoch
  <2>2. CASE /\ streaming' = FALSE /\ pc' = "idle" /\ flow' = "ERROR"
             /\ UNCHANGED <<running, history>>
    BY <1>12, <2>2 DEF StartStreaming
  <2> QED
    BY <1>12, <2>1, <2>2 DEF StartStreaming
<1>13. CASE Pop
  BY <1>13 DEF Pop, PopItem
<1>14. CASE PopTimeout
  BY <1>14 DEF PopTimeout, Saturate
<1>15. CASE GotFlush
  BY <1>15 DEF GotFlush, Dropped
<1>16. CASE GotTimeout
  BY <1>16 DEF GotTimeout, Saturate
<1>17. CASE GotSentinel
  BY <1>17 DEF GotSentinel
<1>18. CASE GotFrame
  BY <1>18 DEF GotFrame, Rearm, Saturate, IsFrame, Frame
<1>19. CASE Silence
  BY <1>19 DEF Silence
<1>20. CASE Verdict
  BY <1>20 DEF Verdict, LadderEnds
<1>21. CASE PortReset
  BY <1>21 DEF PortReset
<1>22. CASE TeardownHandle
  BY <1>22 DEF TeardownHandle, CloseHandle
<1>23. CASE DrainQueue
  BY <1>23 DEF DrainQueue, Dropped, Drained
<1>24. CASE ReinitContext
  BY <1>24 DEF ReinitContext, FreshContext
<1>25. CASE Settle
  BY <1>25 DEF Settle, SettleOver, SettleFailed
<1>26. CASE BudgetExpires
  BY <1>26 DEF BudgetExpires
<1>27. CASE ReopenStarts
  BY <1>27 DEF ReopenStarts, RearmCapture, NewEpoch, LadderEnds
<1>28. CASE ReopenFails
  BY <1>28 DEF ReopenFails, ReopenFailed
<1>29. CASE ReopenPolls
  BY <1>29 DEF ReopenPolls
<1>30. CASE Wait
  BY <1>30 DEF Wait, Interrupted, MayPark, SettleFailed
<1>31. CASE WaitExpires
  BY <1>31 DEF WaitExpires, Interrupted, SettleFailed
<1>32. CASE AwaitPop
  BY <1>32 DEF AwaitPop, PopItem
<1>33. CASE AwaitTimeout
  BY <1>33 DEF AwaitTimeout, NoProof
<1>34. CASE AwaitFlush
  BY <1>34 DEF AwaitFlush, Dropped, NoProof
<1>35. CASE AwaitSentinel
  BY <1>35 DEF AwaitSentinel, NoProof
<1>36. CASE AwaitFrame
  BY <1>36 DEF AwaitFrame, PushFront, IsFrame, LadderEnds
<1>37. CASE DeepRecovery
  BY <1>37 DEF DeepRecovery, DeepActed
<1>38. CASE DeepSkipped
  BY <1>38 DEF DeepSkipped
<1>39. CASE FrameCallback
  BY <1>39 DEF FrameCallback, Frame
<1>40. CASE Unplug
  BY <1>40 DEF Unplug
<1>41. CASE Plug
  BY <1>41 DEF Plug
<1>42. CASE Wedge
  BY <1>42 DEF Wedge
<1>43. CASE UNCHANGED vars
  BY <1>43
<1>44. CASE ReopenOpens
  BY <1>44 DEF ReopenOpens
<1>45. CASE ReopenCloses
  BY <1>45 DEF ReopenCloses, CloseReopened, ReopenFailed
<1>46. CASE DeepHoldEnds
  BY <1>46 DEF DeepHoldEnds, DeepActed
<1>47. QED
  BY <1>1, <1>2, <1>3, <1>4, <1>5, <1>6, <1>7, <1>8, <1>9, <1>10, <1>11,
      <1>12, <1>13, <1>14, <1>15, <1>16, <1>17, <1>18, <1>19, <1>20, <1>21,
      <1>22, <1>23, <1>24, <1>25, <1>26, <1>27, <1>28, <1>29, <1>30, <1>31,
      <1>32, <1>33, <1>34, <1>35, <1>36, <1>37, <1>38, <1>39, <1>40, <1>41,
      <1>42, <1>43, <1>44, <1>45, <1>46
  DEF Next, StreamSteps, Timers, AppProceeds, AppBegins, Camera

\* A drain may swallow a sentinel only where the flag is tested next.
LEMMA FlushStep ==
    TypeInv /\ AppInv /\ SessionInv /\ FlushInv /\ [Next]_vars => FlushInv'
<1> SUFFICES ASSUME TypeInv, AppInv, SessionInv, FlushInv, [Next]_vars
             PROVE  FlushInv'
  OBVIOUS
<1> USE RearmAssumption, SentinelAssumption DEF TypeInv, TypeOK, Pcs, vars,
    session, capture, position, oneShots, appVars, camera, history, AppInv,
    SessionInv, AtDevice, Apart, FlushInv
<1>1. CASE Start
  BY <1>1 DEF Start
<1>2. CASE UnlockSet
  BY <1>2 DEF UnlockSet
<1>3. CASE UnlockPush
  BY <1>3 DEF UnlockPush, PushSentinel
<1>4. CASE UnlockCast
  BY <1>4 DEF UnlockCast, Broadcast
<1>5. CASE Join
  BY <1>5 DEF Join
<1>6. CASE Play
  BY <1>6 DEF Play
<1>7. CASE UnlockStopClear
  BY <1>7 DEF UnlockStopClear
<1>8. CASE UnlockStopDrop
  BY <1>8 DEF UnlockStopDrop, Dropped
<1>9. CASE Stop
  BY <1>9 DEF Stop, Dropped, CloseAll
<1>10. CASE SetProperties
  BY <1>10 DEF SetProperties
<1>11. CASE CallCreate
  BY <1>11 DEF CallCreate
<1>12. CASE StartStreaming
  BY <1>12 DEF StartStreaming, NewEpoch
<1>13. CASE Pop
  BY <1>13 DEF Pop, PopItem
<1>14. CASE PopTimeout
  BY <1>14 DEF PopTimeout, Saturate
<1>15. CASE GotFlush
  BY <1>15 DEF GotFlush, Dropped
<1>16. CASE GotTimeout
  BY <1>16 DEF GotTimeout, Saturate
<1>17. CASE GotSentinel
  BY <1>17 DEF GotSentinel
<1>18. CASE GotFrame
  BY <1>18 DEF GotFrame, Rearm, Saturate, IsFrame, Frame
<1>19. CASE Silence
  BY <1>19 DEF Silence
<1>20. CASE Verdict
  BY <1>20 DEF Verdict, LadderEnds
<1>21. CASE PortReset
  BY <1>21 DEF PortReset
<1>22. CASE TeardownHandle
  BY <1>22 DEF TeardownHandle, CloseHandle
<1>23. CASE DrainQueue
  BY <1>23 DEF DrainQueue, Dropped, Drained
<1>24. CASE ReinitContext
  BY <1>24 DEF ReinitContext, FreshContext
<1>25. CASE Settle
  BY <1>25 DEF Settle, SettleOver, SettleFailed
<1>26. CASE BudgetExpires
  BY <1>26 DEF BudgetExpires
<1>27. CASE ReopenStarts
  BY <1>27 DEF ReopenStarts, RearmCapture, NewEpoch, LadderEnds
<1>28. CASE ReopenFails
  BY <1>28 DEF ReopenFails, ReopenFailed
<1>29. CASE ReopenPolls
  BY <1>29 DEF ReopenPolls
<1>30. CASE Wait
  BY <1>30 DEF Wait, Interrupted, MayPark, SettleFailed
<1>31. CASE WaitExpires
  BY <1>31 DEF WaitExpires, Interrupted, SettleFailed
<1>32. CASE AwaitPop
  BY <1>32 DEF AwaitPop, PopItem
<1>33. CASE AwaitTimeout
  BY <1>33 DEF AwaitTimeout, NoProof
<1>34. CASE AwaitFlush
  BY <1>34 DEF AwaitFlush, Dropped, NoProof
<1>35. CASE AwaitSentinel
  BY <1>35 DEF AwaitSentinel, NoProof
<1>36. CASE AwaitFrame
  BY <1>36 DEF AwaitFrame, PushFront, IsFrame, LadderEnds
<1>37. CASE DeepRecovery
  BY <1>37 DEF DeepRecovery, DeepActed
<1>38. CASE DeepSkipped
  BY <1>38 DEF DeepSkipped
<1>39. CASE FrameCallback
  BY <1>39 DEF FrameCallback, Frame
<1>40. CASE Unplug
  BY <1>40 DEF Unplug
<1>41. CASE Plug
  BY <1>41 DEF Plug
<1>42. CASE Wedge
  BY <1>42 DEF Wedge
<1>43. CASE UNCHANGED vars
  BY <1>43
<1>44. CASE ReopenOpens
  BY <1>44 DEF ReopenOpens
<1>45. CASE ReopenCloses
  BY <1>45 DEF ReopenCloses, CloseReopened, ReopenFailed
<1>46. CASE DeepHoldEnds
  BY <1>46 DEF DeepHoldEnds, DeepActed
<1>47. QED
  BY <1>1, <1>2, <1>3, <1>4, <1>5, <1>6, <1>7, <1>8, <1>9, <1>10, <1>11,
      <1>12, <1>13, <1>14, <1>15, <1>16, <1>17, <1>18, <1>19, <1>20, <1>21,
      <1>22, <1>23, <1>24, <1>25, <1>26, <1>27, <1>28, <1>29, <1>30, <1>31,
      <1>32, <1>33, <1>34, <1>35, <1>36, <1>37, <1>38, <1>39, <1>40, <1>41,
      <1>42, <1>43, <1>44, <1>45, <1>46
  DEF Next, StreamSteps, Timers, AppProceeds, AppBegins, Camera

\* Delivered frames count for the code and for the history alike.
LEMMA ProofStep == TypeInv /\ AppInv /\ ProofInv /\ [Next]_vars => ProofInv'
<1> SUFFICES ASSUME TypeInv, AppInv, ProofInv, [Next]_vars PROVE ProofInv'
  OBVIOUS
<1> USE RearmAssumption, SentinelAssumption DEF TypeInv, TypeOK, Pcs, vars,
    session, capture, position, oneShots, appVars, camera, history, AppInv,
    ProofInv
<1>1. CASE Start
  BY <1>1 DEF Start
<1>2. CASE UnlockSet
  BY <1>2 DEF UnlockSet
<1>3. CASE UnlockPush
  BY <1>3 DEF UnlockPush, PushSentinel
<1>4. CASE UnlockCast
  BY <1>4 DEF UnlockCast, Broadcast
<1>5. CASE Join
  BY <1>5 DEF Join
<1>6. CASE Play
  BY <1>6 DEF Play
<1>7. CASE UnlockStopClear
  BY <1>7 DEF UnlockStopClear
<1>8. CASE UnlockStopDrop
  BY <1>8 DEF UnlockStopDrop, Dropped
<1>9. CASE Stop
  BY <1>9 DEF Stop, Dropped, CloseAll
<1>10. CASE SetProperties
  BY <1>10 DEF SetProperties
<1>11. CASE CallCreate
  BY <1>11 DEF CallCreate
<1>12. CASE StartStreaming
  BY <1>12 DEF StartStreaming, NewEpoch
<1>13. CASE Pop
  BY <1>13 DEF Pop, PopItem
<1>14. CASE PopTimeout
  BY <1>14 DEF PopTimeout, Saturate
<1>15. CASE GotFlush
  BY <1>15 DEF GotFlush, Dropped
<1>16. CASE GotTimeout
  BY <1>16 DEF GotTimeout, Saturate
<1>17. CASE GotSentinel
  BY <1>17 DEF GotSentinel
<1>18. CASE GotFrame
  BY <1>18 DEF GotFrame, Rearm, Saturate, IsFrame, Frame
<1>19. CASE Silence
  BY <1>19 DEF Silence
<1>20. CASE Verdict
  BY <1>20 DEF Verdict, LadderEnds
<1>21. CASE PortReset
  BY <1>21 DEF PortReset
<1>22. CASE TeardownHandle
  BY <1>22 DEF TeardownHandle, CloseHandle
<1>23. CASE DrainQueue
  BY <1>23 DEF DrainQueue, Dropped, Drained
<1>24. CASE ReinitContext
  BY <1>24 DEF ReinitContext, FreshContext
<1>25. CASE Settle
  BY <1>25 DEF Settle, SettleOver, SettleFailed
<1>26. CASE BudgetExpires
  BY <1>26 DEF BudgetExpires
<1>27. CASE ReopenStarts
  BY <1>27 DEF ReopenStarts, RearmCapture, NewEpoch, LadderEnds
<1>28. CASE ReopenFails
  BY <1>28 DEF ReopenFails, ReopenFailed
<1>29. CASE ReopenPolls
  BY <1>29 DEF ReopenPolls
<1>30. CASE Wait
  BY <1>30 DEF Wait, Interrupted, MayPark, SettleFailed
<1>31. CASE WaitExpires
  BY <1>31 DEF WaitExpires, Interrupted, SettleFailed
<1>32. CASE AwaitPop
  BY <1>32 DEF AwaitPop, PopItem
<1>33. CASE AwaitTimeout
  BY <1>33 DEF AwaitTimeout, NoProof
<1>34. CASE AwaitFlush
  BY <1>34 DEF AwaitFlush, Dropped, NoProof
<1>35. CASE AwaitSentinel
  BY <1>35 DEF AwaitSentinel, NoProof
<1>36. CASE AwaitFrame
  BY <1>36 DEF AwaitFrame, PushFront, IsFrame, LadderEnds
<1>37. CASE DeepRecovery
  BY <1>37 DEF DeepRecovery, DeepActed
<1>38. CASE DeepSkipped
  BY <1>38 DEF DeepSkipped
<1>39. CASE FrameCallback
  BY <1>39 DEF FrameCallback, Frame
<1>40. CASE Unplug
  BY <1>40 DEF Unplug
<1>41. CASE Plug
  BY <1>41 DEF Plug
<1>42. CASE Wedge
  BY <1>42 DEF Wedge
<1>43. CASE UNCHANGED vars
  BY <1>43
<1>44. CASE ReopenOpens
  BY <1>44 DEF ReopenOpens
<1>45. CASE ReopenCloses
  BY <1>45 DEF ReopenCloses, CloseReopened, ReopenFailed
<1>46. CASE DeepHoldEnds
  BY <1>46 DEF DeepHoldEnds, DeepActed
<1>47. QED
  BY <1>1, <1>2, <1>3, <1>4, <1>5, <1>6, <1>7, <1>8, <1>9, <1>10, <1>11,
      <1>12, <1>13, <1>14, <1>15, <1>16, <1>17, <1>18, <1>19, <1>20, <1>21,
      <1>22, <1>23, <1>24, <1>25, <1>26, <1>27, <1>28, <1>29, <1>30, <1>31,
      <1>32, <1>33, <1>34, <1>35, <1>36, <1>37, <1>38, <1>39, <1>40, <1>41,
      <1>42, <1>43, <1>44, <1>45, <1>46
  DEF Next, StreamSteps, Timers, AppProceeds, AppBegins, Camera

\* Only a running stream puts frames on the queue, all of its own epoch.
LEMMA FrameStep ==
    TypeInv /\ AppInv /\ SessionInv /\ FrameInv /\ [Next]_vars => FrameInv'
<1> SUFFICES ASSUME TypeInv, AppInv, SessionInv, FrameInv, [Next]_vars
             PROVE  FrameInv'
  OBVIOUS
<1> USE RearmAssumption, SentinelAssumption DEF TypeInv, TypeOK, Pcs, vars,
    session, capture, position, oneShots, appVars, camera, history, AppInv,
    SessionInv, AtDevice, Apart, FrameInv, NoStaleFrame, Frames, IsFrame,
    Frame
<1>1. CASE Start
  BY <1>1 DEF Start
<1>2. CASE UnlockSet
  BY <1>2 DEF UnlockSet
<1>3. CASE UnlockPush
  <2>1. frame_queue \in Seq(Items) /\ FLUSH_SENTINEL \in Items
    BY <1>3 DEF Items
  <2> QED
    BY <1>3, <2>1, FramesOfAppend DEF UnlockPush, PushSentinel
<1>4. CASE UnlockCast
  BY <1>4 DEF UnlockCast, Broadcast
<1>5. CASE Join
  BY <1>5 DEF Join
<1>6. CASE Play
  BY <1>6 DEF Play
<1>7. CASE UnlockStopClear
  BY <1>7 DEF UnlockStopClear
<1>8. CASE UnlockStopDrop
  BY <1>8 DEF UnlockStopDrop, Dropped
<1>9. CASE Stop
  BY <1>9 DEF Stop, Dropped, CloseAll
<1>10. CASE SetProperties
  BY <1>10 DEF SetProperties
<1>11. CASE CallCreate
  BY <1>11 DEF CallCreate
<1>12. CASE StartStreaming
  <2>1. Frames(frame_queue) = {} /\ ~IsFrame(item) /\ ~running
    BY <1>12 DEF StartStreaming
  <2>2. UNCHANGED <<frame_queue, item>>
    BY <1>12 DEF StartStreaming
  <2> QED
    BY <1>12, <2>1, <2>2 DEF StartStreaming, NewEpoch
<1>13. CASE Pop
  <2>1. frame_queue \in Seq(Items) /\ frame_queue # <<>>
    BY <1>13 DEF Pop, PopItem, Items
  <2> QED
    BY <1>13, <2>1, FramesOfTail DEF Pop, PopItem
<1>14. CASE PopTimeout
  BY <1>14 DEF PopTimeout, Saturate
<1>15. CASE GotFlush
  BY <1>15 DEF GotFlush, Dropped
<1>16. CASE GotTimeout
  BY <1>16 DEF GotTimeout, Saturate
<1>17. CASE GotSentinel
  BY <1>17 DEF GotSentinel
<1>18. CASE GotFrame
  BY <1>18 DEF GotFrame, Rearm, Saturate
<1>19. CASE Silence
  BY <1>19 DEF Silence
<1>20. CASE Verdict
  BY <1>20 DEF Verdict, LadderEnds
<1>21. CASE PortReset
  BY <1>21 DEF PortReset
<1>22. CASE TeardownHandle
  BY <1>22 DEF TeardownHandle, CloseHandle
<1>23. CASE DrainQueue
  BY <1>23 DEF DrainQueue, Dropped, Drained
<1>24. CASE ReinitContext
  BY <1>24 DEF ReinitContext, FreshContext
<1>25. CASE Settle
  BY <1>25 DEF Settle, SettleOver, SettleFailed
<1>26. CASE BudgetExpires
  BY <1>26 DEF BudgetExpires
<1>27. CASE ReopenStarts
  <2>1. Frames(frame_queue) = {} /\ ~IsFrame(item) /\ ~running
    BY <1>27 DEF ReopenStarts
  <2>2. UNCHANGED <<frame_queue, item>>
    BY <1>27 DEF ReopenStarts
  <2> QED
    BY <1>27, <2>1, <2>2 DEF ReopenStarts, RearmCapture, NewEpoch, LadderEnds
<1>28. CASE ReopenFails
  BY <1>28 DEF ReopenFails, ReopenFailed
<1>29. CASE ReopenPolls
  BY <1>29 DEF ReopenPolls
<1>30. CASE Wait
  BY <1>30 DEF Wait, Interrupted, MayPark, SettleFailed
<1>31. CASE WaitExpires
  BY <1>31 DEF WaitExpires, Interrupted, SettleFailed
<1>32. CASE AwaitPop
  <2>1. frame_queue \in Seq(Items) /\ frame_queue # <<>>
    BY <1>32 DEF AwaitPop, PopItem, Items
  <2> QED
    BY <1>32, <2>1, FramesOfTail DEF AwaitPop, PopItem
<1>33. CASE AwaitTimeout
  BY <1>33 DEF AwaitTimeout, NoProof
<1>34. CASE AwaitFlush
  BY <1>34 DEF AwaitFlush, Dropped, NoProof
<1>35. CASE AwaitSentinel
  BY <1>35 DEF AwaitSentinel, NoProof
<1>36. CASE AwaitFrame
  <2>1. frame_queue \in Seq(Items) /\ item \in Items /\ IsFrame(item)
    BY <1>36 DEF AwaitFrame, Items
  <2> QED
    BY <1>36, <2>1, FramesOfPushFront DEF AwaitFrame
<1>37. CASE DeepRecovery
  BY <1>37 DEF DeepRecovery, DeepActed
<1>38. CASE DeepSkipped
  BY <1>38 DEF DeepSkipped
<1>39. CASE FrameCallback
  BY <1>39 DEF FrameCallback
<1>40. CASE Unplug
  BY <1>40 DEF Unplug
<1>41. CASE Plug
  BY <1>41 DEF Plug
<1>42. CASE Wedge
  BY <1>42 DEF Wedge
<1>43. CASE UNCHANGED vars
  BY <1>43
<1>44. CASE ReopenOpens
  BY <1>44 DEF ReopenOpens
<1>45. CASE ReopenCloses
  BY <1>45 DEF ReopenCloses, CloseReopened, ReopenFailed
<1>46. CASE DeepHoldEnds
  BY <1>46 DEF DeepHoldEnds, DeepActed
<1>47. QED
  BY <1>1, <1>2, <1>3, <1>4, <1>5, <1>6, <1>7, <1>8, <1>9, <1>10, <1>11,
      <1>12, <1>13, <1>14, <1>15, <1>16, <1>17, <1>18, <1>19, <1>20, <1>21,
      <1>22, <1>23, <1>24, <1>25, <1>26, <1>27, <1>28, <1>29, <1>30, <1>31,
      <1>32, <1>33, <1>34, <1>35, <1>36, <1>37, <1>38, <1>39, <1>40, <1>41,
      <1>42, <1>43, <1>44, <1>45, <1>46
  DEF Next, StreamSteps, Timers, AppProceeds, AppBegins, Camera

\* Popping, capturing and putting a proof frame back keep the order.
LEMMA LinkStep ==
    TypeInv /\ AppInv /\ SessionInv /\ LinkInv /\ [Next]_vars => LinkInv'
<1> SUFFICES ASSUME TypeInv, AppInv, SessionInv, LinkInv, [Next]_vars
             PROVE  LinkInv'
  OBVIOUS
<1> USE RearmAssumption, SentinelAssumption DEF TypeInv, TypeOK, Pcs, vars,
    session, capture, position, oneShots, appVars, camera, history, AppInv,
    SessionInv, AtDevice, Apart, LinkInv, Frames, IsFrame, Frame
<1>1. CASE Start
  BY <1>1 DEF Start
<1>2. CASE UnlockSet
  BY <1>2 DEF UnlockSet
<1>3. CASE UnlockPush
  <2>1. frame_queue \in Seq(Items) /\ FLUSH_SENTINEL \in Items
    BY DEF Items
  <2>2. /\ frame_queue' = Append(frame_queue, FLUSH_SENTINEL)
        /\ ~IsFrame(FLUSH_SENTINEL)
        /\ UNCHANGED <<item, frame_offset, lastOff>>
    BY <1>3 DEF UnlockPush, PushSentinel
  <2> HIDE DEF Frames, IsFrame
  <2> QED
    BY <2>1, <2>2, FramesOfAppend
<1>4. CASE UnlockCast
  BY <1>4 DEF UnlockCast, Broadcast
<1>5. CASE Join
  BY <1>5 DEF Join
<1>6. CASE Play
  BY <1>6 DEF Play
<1>7. CASE UnlockStopClear
  BY <1>7 DEF UnlockStopClear
<1>8. CASE UnlockStopDrop
  BY <1>8 DEF UnlockStopDrop, Dropped
<1>9. CASE Stop
  BY <1>9 DEF Stop, Dropped, CloseAll
<1>10. CASE SetProperties
  BY <1>10 DEF SetProperties
<1>11. CASE CallCreate
  BY <1>11 DEF CallCreate
<1>12. CASE StartStreaming
  <2>1. /\ ~IsFrame(item)
        /\ UNCHANGED <<frame_queue, item, frame_offset, lastOff>>
    BY <1>12 DEF StartStreaming, NewEpoch
  <2> QED
    BY <1>12, <2>1 DEF StartStreaming
<1>13. CASE Pop
  <2>1. frame_queue \in Seq(Items) /\ frame_queue # <<>> /\ ~IsFrame(item)
    BY <1>13 DEF Pop, PopItem, Items
  <2>2. /\ item' = Head(frame_queue) /\ frame_queue' = Tail(frame_queue)
        /\ UNCHANGED <<frame_offset, lastOff>>
    BY <1>13 DEF Pop, PopItem
  <2> HIDE DEF Frames, IsFrame, TypeInv, SessionInv, AppInv
  <2>3. /\ item' = frame_queue[1]
        /\ IsFrame(item') <=> 1 \in Frames(frame_queue)
        /\ \A i \in Frames(frame_queue') :
              /\ i \in Nat \ {0} /\ i + 1 \in Frames(frame_queue)
              /\ frame_queue'[i] = frame_queue[i + 1]
    BY <2>1, <2>2, FramesOfTail
  <2>4. \A i \in Frames(frame_queue') :
           /\ lastOff < frame_queue'[i].off
           /\ frame_queue'[i].off < frame_offset
           /\ IsFrame(item') => item'.off < frame_queue'[i].off
    BY <2>3
  <2>5. \A i, j \in Frames(frame_queue') :
           i < j => frame_queue'[i].off < frame_queue'[j].off
    BY <2>3
  <2> QED
    BY <2>2, <2>3, <2>4, <2>5
<1>14. CASE PopTimeout
  BY <1>14 DEF PopTimeout, Saturate
<1>15. CASE GotFlush
  BY <1>15 DEF GotFlush, Dropped
<1>16. CASE GotTimeout
  BY <1>16 DEF GotTimeout, Saturate
<1>17. CASE GotSentinel
  BY <1>17 DEF GotSentinel
<1>18. CASE GotFrame
  BY <1>18 DEF GotFrame, Rearm, Saturate
<1>19. CASE Silence
  BY <1>19 DEF Silence
<1>20. CASE Verdict
  BY <1>20 DEF Verdict, LadderEnds
<1>21. CASE PortReset
  BY <1>21 DEF PortReset
<1>22. CASE TeardownHandle
  BY <1>22 DEF TeardownHandle, CloseHandle
<1>23. CASE DrainQueue
  BY <1>23 DEF DrainQueue, Dropped, Drained
<1>24. CASE ReinitContext
  BY <1>24 DEF ReinitContext, FreshContext
<1>25. CASE Settle
  BY <1>25 DEF Settle, SettleOver, SettleFailed
<1>26. CASE BudgetExpires
  BY <1>26 DEF BudgetExpires
<1>27. CASE ReopenStarts
  BY <1>27 DEF ReopenStarts, RearmCapture, NewEpoch, LadderEnds
<1>28. CASE ReopenFails
  BY <1>28 DEF ReopenFails, ReopenFailed
<1>29. CASE ReopenPolls
  BY <1>29 DEF ReopenPolls
<1>30. CASE Wait
  BY <1>30 DEF Wait, Interrupted, MayPark, SettleFailed
<1>31. CASE WaitExpires
  BY <1>31 DEF WaitExpires, Interrupted, SettleFailed
<1>32. CASE AwaitPop
  <2>1. frame_queue \in Seq(Items) /\ frame_queue # <<>> /\ ~IsFrame(item)
    BY <1>32 DEF AwaitPop, PopItem, Items
  <2>2. /\ item' = Head(frame_queue) /\ frame_queue' = Tail(frame_queue)
        /\ UNCHANGED <<frame_offset, lastOff>>
    BY <1>32 DEF AwaitPop, PopItem
  <2> HIDE DEF Frames, IsFrame, TypeInv, SessionInv, AppInv
  <2>3. /\ item' = frame_queue[1]
        /\ IsFrame(item') <=> 1 \in Frames(frame_queue)
        /\ \A i \in Frames(frame_queue') :
              /\ i \in Nat \ {0} /\ i + 1 \in Frames(frame_queue)
              /\ frame_queue'[i] = frame_queue[i + 1]
    BY <2>1, <2>2, FramesOfTail
  <2>4. \A i \in Frames(frame_queue') :
           /\ lastOff < frame_queue'[i].off
           /\ frame_queue'[i].off < frame_offset
           /\ IsFrame(item') => item'.off < frame_queue'[i].off
    BY <2>3
  <2>5. \A i, j \in Frames(frame_queue') :
           i < j => frame_queue'[i].off < frame_queue'[j].off
    BY <2>3
  <2> QED
    BY <2>2, <2>3, <2>4, <2>5
<1>33. CASE AwaitTimeout
  BY <1>33 DEF AwaitTimeout, NoProof
<1>34. CASE AwaitFlush
  BY <1>34 DEF AwaitFlush, Dropped, NoProof
<1>35. CASE AwaitSentinel
  BY <1>35 DEF AwaitSentinel, NoProof
<1>36. CASE AwaitFrame
  <2>1. frame_queue \in Seq(Items) /\ item \in Items /\ IsFrame(item)
    BY <1>36 DEF AwaitFrame, Items
  <2>2. /\ frame_queue' = PushFront(item, frame_queue) /\ ~IsFrame(item')
        /\ UNCHANGED <<frame_offset, lastOff>>
    BY <1>36 DEF AwaitFrame
  <2> HIDE DEF Frames, IsFrame, TypeInv, SessionInv, AppInv
  <2>3. /\ frame_queue'[1] = item
        /\ \A i \in Frames(frame_queue') :
              /\ i \in Nat \ {0}
              /\ i # 1 => /\ i - 1 \in Frames(frame_queue)
                         /\ frame_queue'[i] = frame_queue[i - 1]
    BY <2>1, <2>2, FramesOfPushFront
  <2>4. \A i \in Frames(frame_queue') :
           lastOff < frame_queue'[i].off /\ frame_queue'[i].off < frame_offset
    BY <2>1, <2>3
  <2>5. ASSUME NEW i \in Frames(frame_queue'), NEW j \in Frames(frame_queue'),
               i < j
        PROVE  frame_queue'[i].off < frame_queue'[j].off
    <3>1. j - 1 \in Frames(frame_queue) /\ frame_queue'[j] = frame_queue[j - 1]
      BY <2>3, <2>5
    <3>2. CASE i = 1
      BY <2>1, <2>3, <3>1, <3>2
    <3>3. CASE i # 1
      BY <2>3, <2>5, <3>1, <3>3
    <3> QED
      BY <3>2, <3>3
  <2> QED
    BY <2>2, <2>4, <2>5
<1>37. CASE DeepRecovery
  BY <1>37 DEF DeepRecovery, DeepActed
<1>38. CASE DeepSkipped
  BY <1>38 DEF DeepSkipped
<1>39. CASE FrameCallback
  BY <1>39, SMTT(20) DEF FrameCallback
<1>40. CASE Unplug
  BY <1>40 DEF Unplug
<1>41. CASE Plug
  BY <1>41 DEF Plug
<1>42. CASE Wedge
  BY <1>42 DEF Wedge
<1>43. CASE UNCHANGED vars
  BY <1>43
<1>44. CASE ReopenOpens
  BY <1>44 DEF ReopenOpens
<1>45. CASE ReopenCloses
  BY <1>45 DEF ReopenCloses, CloseReopened, ReopenFailed
<1>46. CASE DeepHoldEnds
  BY <1>46 DEF DeepHoldEnds, DeepActed
<1>47. QED
  BY <1>1, <1>2, <1>3, <1>4, <1>5, <1>6, <1>7, <1>8, <1>9, <1>10, <1>11,
      <1>12, <1>13, <1>14, <1>15, <1>16, <1>17, <1>18, <1>19, <1>20, <1>21,
      <1>22, <1>23, <1>24, <1>25, <1>26, <1>27, <1>28, <1>29, <1>30, <1>31,
      <1>32, <1>33, <1>34, <1>35, <1>36, <1>37, <1>38, <1>39, <1>40, <1>41,
      <1>42, <1>43, <1>44, <1>45, <1>46
  DEF Next, StreamSteps, Timers, AppProceeds, AppBegins, Camera

\* A reopen closes the IDR gate again before its first frame.
LEMMA LeadStep ==
    TypeInv /\ AppInv /\ SessionInv /\ FrameInv /\ LeadInv /\ [Next]_vars =>
        LeadInv'
<1> SUFFICES ASSUME TypeInv, AppInv, SessionInv, FrameInv, LeadInv, [Next]_vars
             PROVE  LeadInv'
  OBVIOUS
<1> USE RearmAssumption, SentinelAssumption DEF TypeInv, TypeOK, Pcs, vars,
    session, capture, position, oneShots, appVars, camera, history, AppInv,
    SessionInv, AtDevice, Apart, FrameInv, NoStaleFrame, LeadInv, Frames,
    IsFrame, Frame
<1>1. CASE Start
  BY <1>1 DEF Start
<1>2. CASE UnlockSet
  BY <1>2 DEF UnlockSet
<1>3. CASE UnlockPush
  <2>1. frame_queue \in Seq(Items) /\ FLUSH_SENTINEL \in Items
    BY <1>3 DEF Items
  <2> QED
    BY <1>3, <2>1, FramesOfAppend DEF UnlockPush, PushSentinel
<1>4. CASE UnlockCast
  BY <1>4 DEF UnlockCast, Broadcast
<1>5. CASE Join
  BY <1>5 DEF Join
<1>6. CASE Play
  BY <1>6 DEF Play
<1>7. CASE UnlockStopClear
  BY <1>7 DEF UnlockStopClear
<1>8. CASE UnlockStopDrop
  BY <1>8 DEF UnlockStopDrop, Dropped
<1>9. CASE Stop
  BY <1>9 DEF Stop, Dropped, CloseAll
<1>10. CASE SetProperties
  BY <1>10 DEF SetProperties
<1>11. CASE CallCreate
  BY <1>11 DEF CallCreate
<1>12. CASE StartStreaming
  <2>1. Frames(frame_queue) = {} /\ ~IsFrame(item) /\ ~running
    BY <1>12 DEF StartStreaming
  <2>2. /\ UNCHANGED <<frame_queue, item, uvc_devh, had_idr>>
        /\ pc # "opened" /\ pc' # "opened"
    BY <1>12 DEF StartStreaming
  <2>3. Frames(frame_queue') = {} /\ ~IsFrame(item')
    BY <2>1, <2>2
  <2> HIDE DEF Frames, IsFrame
  <2>4. CASE uvc_devh = "live"
    BY <2>1, <2>2, <2>3, <2>4
  <2>5. CASE uvc_devh # "live"
    <3>1. UNCHANGED <<running, lead>>
      BY <1>12, <2>5 DEF StartStreaming
    <3> QED
      BY <3>1, <2>1, <2>2, <2>3
  <2> QED
    BY <2>4, <2>5
<1>13. CASE Pop
  <2>1. frame_queue \in Seq(Items) /\ frame_queue # <<>> /\ ~IsFrame(item)
    BY <1>13 DEF Pop, PopItem, Items
  <2>2. /\ item' = Head(frame_queue) /\ frame_queue' = Tail(frame_queue)
        /\ UNCHANGED <<uvc_devh, running, had_idr, lead>>
        /\ pc # "opened" /\ pc' # "opened"
    BY <1>13 DEF Pop, PopItem
  <2> HIDE DEF Frames, IsFrame, TypeInv, SessionInv, AppInv
  <2>3. /\ item' = frame_queue[1]
        /\ IsFrame(item') <=> 1 \in Frames(frame_queue)
        /\ \A i \in Frames(frame_queue') :
              /\ i \in Nat \ {0} /\ i + 1 \in Frames(frame_queue)
              /\ frame_queue'[i] = frame_queue[i + 1]
        /\ \A i \in Frames(frame_queue) :
              i \in Nat \ {0} /\ (i = 1 \/ i - 1 \in Frames(frame_queue'))
    BY <2>1, <2>2, FramesOfTail
  <2>4. CASE IsFrame(item')
    BY <2>1, <2>2, <2>3, <2>4
  <2>5. CASE ~IsFrame(item')
    <3>1. Frames(frame_queue') = {} => Frames(frame_queue) = {}
      BY <2>3, <2>5
    <3>2. ASSUME NEW i \in Frames(frame_queue'),
                 \A j \in Frames(frame_queue') : i <= j
          PROVE  \A j \in Frames(frame_queue) : i + 1 <= j
      BY <2>3, <2>5, <3>2
    <3> QED
      BY <2>1, <2>2, <2>3, <2>5, <3>1, <3>2
  <2> QED
    BY <2>4, <2>5
<1>14. CASE PopTimeout
  BY <1>14 DEF PopTimeout, Saturate
<1>15. CASE GotFlush
  BY <1>15 DEF GotFlush, Dropped
<1>16. CASE GotTimeout
  BY <1>16 DEF GotTimeout, Saturate
<1>17. CASE GotSentinel
  BY <1>17 DEF GotSentinel
<1>18. CASE GotFrame
  BY <1>18 DEF GotFrame, Rearm, Saturate
<1>19. CASE Silence
  BY <1>19 DEF Silence
<1>20. CASE Verdict
  BY <1>20 DEF Verdict, LadderEnds
<1>21. CASE PortReset
  BY <1>21 DEF PortReset
<1>22. CASE TeardownHandle
  BY <1>22 DEF TeardownHandle, CloseHandle
<1>23. CASE DrainQueue
  BY <1>23 DEF DrainQueue, Dropped, Drained
<1>24. CASE ReinitContext
  BY <1>24 DEF ReinitContext, FreshContext
<1>25. CASE Settle
  BY <1>25 DEF Settle, SettleOver, SettleFailed
<1>26. CASE BudgetExpires
  BY <1>26 DEF BudgetExpires
<1>27. CASE ReopenStarts
  <2>1. Frames(frame_queue) = {} /\ ~IsFrame(item) /\ ~running
    BY <1>27 DEF ReopenStarts
  <2>2. UNCHANGED <<frame_queue, item>>
    BY <1>27 DEF ReopenStarts
  <2> QED
    BY <1>27, <2>1, <2>2 DEF ReopenStarts, RearmCapture, NewEpoch, LadderEnds
<1>28. CASE ReopenFails
  BY <1>28 DEF ReopenFails, ReopenFailed
<1>29. CASE ReopenPolls
  BY <1>29 DEF ReopenPolls
<1>30. CASE Wait
  BY <1>30 DEF Wait, Interrupted, MayPark, SettleFailed
<1>31. CASE WaitExpires
  BY <1>31 DEF WaitExpires, Interrupted, SettleFailed
<1>32. CASE AwaitPop
  <2>1. frame_queue \in Seq(Items) /\ frame_queue # <<>> /\ ~IsFrame(item)
    BY <1>32 DEF AwaitPop, PopItem, Items
  <2>2. /\ item' = Head(frame_queue) /\ frame_queue' = Tail(frame_queue)
        /\ UNCHANGED <<uvc_devh, running, had_idr, lead>>
        /\ pc # "opened" /\ pc' # "opened"
    BY <1>32 DEF AwaitPop, PopItem
  <2> HIDE DEF Frames, IsFrame, TypeInv, SessionInv, AppInv
  <2>3. /\ item' = frame_queue[1]
        /\ IsFrame(item') <=> 1 \in Frames(frame_queue)
        /\ \A i \in Frames(frame_queue') :
              /\ i \in Nat \ {0} /\ i + 1 \in Frames(frame_queue)
              /\ frame_queue'[i] = frame_queue[i + 1]
        /\ \A i \in Frames(frame_queue) :
              i \in Nat \ {0} /\ (i = 1 \/ i - 1 \in Frames(frame_queue'))
    BY <2>1, <2>2, FramesOfTail
  <2>4. CASE IsFrame(item')
    BY <2>1, <2>2, <2>3, <2>4
  <2>5. CASE ~IsFrame(item')
    <3>1. Frames(frame_queue') = {} => Frames(frame_queue) = {}
      BY <2>3, <2>5
    <3>2. ASSUME NEW i \in Frames(frame_queue'),
                 \A j \in Frames(frame_queue') : i <= j
          PROVE  \A j \in Frames(frame_queue) : i + 1 <= j
      BY <2>3, <2>5, <3>2
    <3> QED
      BY <2>1, <2>2, <2>3, <2>5, <3>1, <3>2
  <2> QED
    BY <2>4, <2>5
<1>33. CASE AwaitTimeout
  BY <1>33 DEF AwaitTimeout, NoProof
<1>34. CASE AwaitFlush
  BY <1>34 DEF AwaitFlush, Dropped, NoProof
<1>35. CASE AwaitSentinel
  BY <1>35 DEF AwaitSentinel, NoProof
<1>36. CASE AwaitFrame
  <2>1. frame_queue \in Seq(Items) /\ item \in Items /\ IsFrame(item)
    BY <1>36 DEF AwaitFrame, Items
  <2> QED
    BY <1>36, <2>1, FramesOfPushFront DEF AwaitFrame
<1>37. CASE DeepRecovery
  BY <1>37 DEF DeepRecovery, DeepActed
<1>38. CASE DeepSkipped
  BY <1>38 DEF DeepSkipped
<1>39. CASE FrameCallback
  <2> SUFFICES ASSUME NEW key \in BOOLEAN, had_idr \/ key, had_idr' = TRUE,
                      frame_queue' = Append(frame_queue,
                          [off |-> frame_offset, key |-> key, ep |-> epoch])
               PROVE  LeadInv'
    BY <1>39 DEF FrameCallback
  <2> DEFINE f == [off |-> frame_offset, key |-> key, ep |-> epoch]
  <2>1. frame_queue \in Seq(Items) /\ f \in Items /\ f.key = key
    BY DEF Items
  <2>2. running /\ UNCHANGED <<uvc_devh, running, lead, item>>
    BY <1>39 DEF FrameCallback
  <2> HIDE DEF f
  <2> QED
    BY <2>1, <2>2, FramesOfAppend DEF f
<1>40. CASE Unplug
  BY <1>40 DEF Unplug
<1>41. CASE Plug
  BY <1>41 DEF Plug
<1>42. CASE Wedge
  BY <1>42 DEF Wedge
<1>43. CASE UNCHANGED vars
  BY <1>43
<1>44. CASE ReopenOpens
  BY <1>44 DEF ReopenOpens
<1>45. CASE ReopenCloses
  <2>1. ~running /\ running' = running /\ uvc_devh' = "NULL"
    BY <1>45 DEF ReopenCloses, CloseReopened
  <2> QED
    BY <2>1
<1>46. CASE DeepHoldEnds
  BY <1>46 DEF DeepHoldEnds, DeepActed
<1>47. QED
  BY <1>1, <1>2, <1>3, <1>4, <1>5, <1>6, <1>7, <1>8, <1>9, <1>10, <1>11,
      <1>12, <1>13, <1>14, <1>15, <1>16, <1>17, <1>18, <1>19, <1>20, <1>21,
      <1>22, <1>23, <1>24, <1>25, <1>26, <1>27, <1>28, <1>29, <1>30, <1>31,
      <1>32, <1>33, <1>34, <1>35, <1>36, <1>37, <1>38, <1>39, <1>40, <1>41,
      <1>42, <1>43, <1>44, <1>45, <1>46
  DEF Next, StreamSteps, Timers, AppProceeds, AppBegins, Camera

-----------------------------------------------------------------------------
(* The invariant, and what follows from it.                                *)

IInv == TypeInv /\ AppInv /\ SessionInv /\ FlushInv /\ ProofInv /\ FrameInv
        /\ LinkInv /\ LeadInv

\* A source that has just been created satisfies every part of IInv.
LEMMA InitIInv == Init => IInv
<1> SUFFICES ASSUME Init PROVE IInv
  OBVIOUS
<1> USE DEF Init
<1>1. TypeInv
  <2>1. /\ streaming \in BOOLEAN /\ running \in BOOLEAN /\ flushing \in BOOLEAN
        /\ had_idr \in BOOLEAN /\ expired \in BOOLEAN /\ wedged \in BOOLEAN
        /\ reset_recovery_used \in BOOLEAN /\ deep_recovery_used \in BOOLEAN
    BY Zenon
  <2>2. frame_queue \in Seq(Frame \cup {FLUSH_SENTINEL})
    OBVIOUS
  <2>3. ~reset_recovery_used
    BY Zenon
  <2> QED
    BY <2>1, <2>2, <2>3, TimeoutsAssumption, RearmAssumption
    DEF TypeInv, TypeOK, Pcs
<1>2. AppInv /\ FlushInv /\ ProofInv
  BY RearmAssumption DEF AppInv, FlushInv, ProofInv
<1>3. SessionInv
  BY DEF SessionInv, StreamingIsRunning, AtDevice, Apart
<1>4. Frames(frame_queue) = {} /\ ~IsFrame(item)
  BY SentinelAssumption DEF Frames, IsFrame
<1>5. FrameInv /\ LinkInv /\ LeadInv
  BY <1>4 DEF FrameInv, NoStaleFrame, LinkInv, LeadInv
<1> QED
  BY <1>1, <1>2, <1>3, <1>5 DEF IInv

\* Every step of every thread preserves it.
LEMMA NextIInv == IInv /\ [Next]_vars => IInv'
  BY TypeStep, AppStep, SessionStep, FlushStep, ProofStep, FrameStep, LinkStep,
     LeadStep DEF IInv

\* The invariant holds of every behaviour.
THEOREM Invariance == Spec => []IInv
<1>1. Init => IInv
  BY InitIInv
<1>2. IInv /\ [Next]_vars => IInv'
  BY NextIInv
<1> QED
  BY <1>1, <1>2, PTL DEF Spec

\* The variables keep their types: the timeout and proof counters never pass
\* their limits, and the queue holds access units and sentinels only.
THEOREM TypeCorrect == Spec => []TypeOK
<1>1. IInv => TypeOK
  BY DEF IInv, TypeInv
<1> QED
  BY <1>1, Invariance, PTL

\* No recovery overwrites an open handle or pulls the context from under one.
THEOREM HandlesAreDisciplined == Spec => []HandleDiscipline
<1>1. IInv => HandleDiscipline
  BY DEF IInv, SessionInv, Apart, HandleDiscipline
<1> QED
  BY <1>1, Invariance, PTL

\* The streaming flag stands only over a running stream.
THEOREM FlagMeansRunning == Spec => []StreamingIsRunning
<1>1. IInv => StreamingIsRunning
  BY DEF IInv, SessionInv
<1> QED
  BY <1>1, Invariance, PTL

\* A stopped element holds nothing, however its session ended.
THEOREM StopReleasesAll == Spec => []SessionLeavesNothing
<1>1. IInv => SessionLeavesNothing
  <2> SUFFICES ASSUME IInv, app = "READY" PROVE SessionLeavesNothing
    BY DEF SessionLeavesNothing
  <2>1. appPc = "idle" /\ target = "READY" /\ pc = "idle" /\ ~flushing
    BY DEF IInv, AppInv
  <2>2. uvc_ctx = "NULL" /\ uvc_devh = "NULL" /\ frame_queue = <<>>
    BY DEF IInv, SessionInv
  <2>3. ~running /\ ~streaming /\ item = NoItem
    BY <2>1, <2>2 DEF IInv, SessionInv, StreamingIsRunning
  <2> QED
    BY <2>1, <2>2, <2>3 DEF SessionLeavesNothing
<1> QED
  BY <1>1, Invariance, PTL

\* No reopen runs on a context a re-enumeration has invalidated.
THEOREM ReopensAreFresh == Spec => []ReopenOnFreshContext
<1>1. IInv => ReopenOnFreshContext
  BY DEF IInv, SessionInv, ReopenOnFreshContext
<1> QED
  BY <1>1, Invariance, PTL

\* A flush that is under way leaves create() waiting on no timer it could cut
\* short.
THEOREM FlushIsHeard == Spec => []FlushReachesWaiter
<1>1. IInv => FlushReachesWaiter
  BY DEF IInv, FlushInv, FlushReachesWaiter
<1> QED
  BY <1>1, Invariance, PTL

\* Nothing captured before a break in the stream is delivered after it.
THEOREM FramesAreCurrent == Spec => []NoStaleFrame
<1>1. IInv => NoStaleFrame
  BY DEF IInv, FrameInv
<1> QED
  BY <1>1, Invariance, PTL

\* Unless a flush intervenes, a (re)started stream leads with an IDR.
THEOREM StreamLeadsWithKey == Spec => []ReopenLeadsWithKey
<1>1. IInv => ReopenLeadsWithKey
  <2> SUFFICES ASSUME IInv, pc = "got", IsFrame(item), lead = "fresh"
               PROVE  item.key
    BY DEF ReopenLeadsWithKey
  <2>1. running
    BY DEF IInv, SessionInv, AtDevice
  <2> QED
    BY <2>1 DEF IInv, LeadInv
<1> QED
  BY <1>1, Invariance, PTL

\* No port reset without ResetRearmFrames frames delivered since the last.
THEOREM ResetsAreProven == Spec => []ResetNeedsProof
<1>1. IInv => ResetNeedsProof
  BY DEF IInv, ProofInv, ResetNeedsProof
<1> QED
  BY <1>1, Invariance, PTL

\* The recovery hands control back to create() only over a queued frame of
\* the stream it reopened.
THEOREM RecoveryIsProven == Spec => RecoveryProven
<1>1. IInv /\ [Next]_vars => [ProvenStep]_vars
  <2> SUFFICES ASSUME IInv, Next, ladder \in {"settle", "deep"}, pc' = "pop"
               PROVE  ProvenStep
    BY DEF ProvenStep
  <2>1. pc \notin {"idle", "starting", "pop", "got"}
    BY DEF IInv, SessionInv
  <2>2. AwaitFrame
    BY <2>1
    DEF Next, StreamSteps, Timers, AppProceeds, AppBegins, Camera, TypeOK,
        TypeInv, IInv, position, appVars, Start, UnlockSet, UnlockPush,
        PushSentinel, UnlockCast, Broadcast, Join, Play, UnlockStopClear,
        UnlockStopDrop, Dropped, Stop, CloseAll, SetProperties, CallCreate,
        StartStreaming, NewEpoch, Pop, PopItem, PopTimeout, Saturate,
        GotFlush, GotTimeout,
        GotSentinel, GotFrame, Rearm, Silence, Verdict, LadderEnds, PortReset,
        TeardownHandle, CloseHandle, DrainQueue, Drained, ReinitContext,
        FreshContext, Settle, SettleOver, SettleFailed, BudgetExpires,
        ReopenOpens, ReopenStarts, RearmCapture, ReopenFails, ReopenFailed,
        ReopenCloses, CloseReopened, ReopenPolls, Wait, Interrupted, MayPark,
        WaitExpires, AwaitPop, AwaitTimeout, NoProof, AwaitFlush,
        AwaitSentinel, PushFront, DeepRecovery, DeepActed, DeepHoldEnds,
        DeepSkipped, FrameCallback, Unplug, Plug, Wedge
  <2>3. frame_queue \in Seq(Items) /\ item \in Items /\ IsFrame(item)
    BY <2>2 DEF IInv, TypeInv, TypeOK, AwaitFrame, Items, IsFrame
  <2>4. frame_queue'[1] = item /\ frame_queue' # <<>>
    BY <2>2, <2>3, FramesOfPushFront DEF AwaitFrame, Frames
  <2>5. item.ep = epoch /\ epoch' = epoch
    BY <2>2, <2>3 DEF IInv, FrameInv, NoStaleFrame, AwaitFrame, history
  <2> QED
    BY <2>3, <2>4, <2>5 DEF ProvenStep
<1> QED
  BY <1>1, Invariance, PTL DEF Spec, RecoveryProven

\* The whole element implements LossyLink: whatever is interleaved, frames
\* reach downstream in capture order and at most once.
THEOREM ImplementsLossyLink == Spec => LinkSpec
<1>1. Init => Link!Init
  BY DEF Init, Link!Init
<1>2. IInv /\ [Next]_vars => [Link!Next]_(Link!vars)
  <2> SUFFICES ASSUME IInv, [Next]_vars PROVE [Link!Next]_(Link!vars)
    OBVIOUS
  <2> USE DEF IInv, TypeInv, TypeOK, Link!Next, Link!vars, vars, session,
      capture,
             position, oneShots, appVars, camera, history
  <2>1. CASE Start
    BY <2>1 DEF Start, Link!Open
  <2>2. CASE UnlockSet
    BY <2>2 DEF UnlockSet
  <2>3. CASE UnlockPush
    BY <2>3 DEF UnlockPush, PushSentinel
  <2>4. CASE UnlockCast
    BY <2>4 DEF UnlockCast, Broadcast, AppInv
  <2>5. CASE Join
    BY <2>5 DEF Join
  <2>6. CASE Play
    BY <2>6 DEF Play
  <2>7. CASE UnlockStopClear
    BY <2>7 DEF UnlockStopClear
  <2>8. CASE UnlockStopDrop
    BY <2>8 DEF UnlockStopDrop, Dropped, AppInv
  <2>9. CASE Stop
    BY <2>9 DEF Stop, Dropped, CloseAll, Link!Close, AppInv
  <2>10. CASE SetProperties
    BY <2>10 DEF SetProperties
  <2>11. CASE CallCreate
    BY <2>11 DEF CallCreate
  <2>12. CASE StartStreaming
    BY <2>12 DEF StartStreaming, NewEpoch
  <2>13. CASE Pop
    BY <2>13 DEF Pop, PopItem
  <2>14. CASE PopTimeout
    BY <2>14 DEF PopTimeout, Saturate
  <2>15. CASE GotFlush
    BY <2>15 DEF GotFlush, Dropped
  <2>16. CASE GotTimeout
    BY <2>16 DEF GotTimeout, Saturate
  <2>17. CASE GotSentinel
    BY <2>17 DEF GotSentinel
  <2>18. CASE GotFrame
    BY <2>18 DEF GotFrame, Link!Deliver, AppInv, LinkInv, IsFrame, Frame
  <2>19. CASE Silence
    BY <2>19 DEF Silence
  <2>20. CASE Verdict
    BY <2>20 DEF Verdict, LadderEnds
  <2>21. CASE PortReset
    BY <2>21 DEF PortReset
  <2>22. CASE TeardownHandle
    BY <2>22 DEF TeardownHandle, CloseHandle
  <2>23. CASE DrainQueue
    BY <2>23 DEF DrainQueue, Dropped, Drained
  <2>24. CASE ReinitContext
    BY <2>24 DEF ReinitContext, FreshContext
  <2>25. CASE Settle
    BY <2>25 DEF Settle, SettleOver, SettleFailed
  <2>26. CASE BudgetExpires
    BY <2>26 DEF BudgetExpires
  <2>27. CASE ReopenStarts
    BY <2>27 DEF ReopenStarts, RearmCapture, NewEpoch, LadderEnds
  <2>28. CASE ReopenFails
    BY <2>28 DEF ReopenFails, ReopenFailed
  <2>29. CASE ReopenPolls
    BY <2>29 DEF ReopenPolls
  <2>30. CASE Wait
    BY <2>30 DEF Wait, Interrupted, MayPark, SettleFailed
  <2>31. CASE WaitExpires
    BY <2>31 DEF WaitExpires, Interrupted, SettleFailed
  <2>32. CASE AwaitPop
    BY <2>32 DEF AwaitPop, PopItem
  <2>33. CASE AwaitTimeout
    BY <2>33 DEF AwaitTimeout, NoProof
  <2>34. CASE AwaitFlush
    BY <2>34 DEF AwaitFlush, Dropped, NoProof
  <2>35. CASE AwaitSentinel
    BY <2>35 DEF AwaitSentinel, NoProof
  <2>36. CASE AwaitFrame
    BY <2>36 DEF AwaitFrame, PushFront, IsFrame, LadderEnds
  <2>37. CASE DeepRecovery
    BY <2>37 DEF DeepRecovery, DeepActed
  <2>38. CASE DeepSkipped
    BY <2>38 DEF DeepSkipped
  <2>39. CASE FrameCallback
    BY <2>39 DEF FrameCallback, Frame, Link!Capture, AppInv, SessionInv
  <2>40. CASE Unplug
    BY <2>40 DEF Unplug
  <2>41. CASE Plug
    BY <2>41 DEF Plug
  <2>42. CASE Wedge
    BY <2>42 DEF Wedge
  <2>43. CASE UNCHANGED vars
    BY <2>43
  <2>44. CASE ReopenOpens
    BY <2>44 DEF ReopenOpens
  <2>45. CASE ReopenCloses
    BY <2>45 DEF ReopenCloses, CloseReopened, ReopenFailed
  <2>46. CASE DeepHoldEnds
    BY <2>46 DEF DeepHoldEnds, DeepActed
  <2> QED
    BY <2>1, <2>2, <2>3, <2>4, <2>5, <2>6, <2>7, <2>8, <2>9, <2>10, <2>11,
        <2>12, <2>13, <2>14, <2>15, <2>16, <2>17, <2>18, <2>19, <2>20, <2>21,
        <2>22, <2>23, <2>24, <2>25, <2>26, <2>27, <2>28, <2>29, <2>30, <2>31,
        <2>32, <2>33, <2>34, <2>35, <2>36, <2>37, <2>38, <2>39, <2>40, <2>41,
        <2>42, <2>43, <2>44, <2>45, <2>46
    DEF Next, StreamSteps, Timers, AppProceeds, AppBegins, Camera
<1> QED
  BY <1>1, <1>2, Invariance, PTL DEF Spec, LinkSpec, Link!Spec
=============================================================================
