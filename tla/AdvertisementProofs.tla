------------------------ MODULE AdvertisementProofs ------------------------
(***************************************************************************)
(* Proofs about Advertisement, for any capacity of the daemon's queue of   *)
(* at least four commands and any number of stops: whatever fails, the     *)
(* daemon is asked to exit; a stop that succeeds has taken back what was   *)
(* announced; and after one that failed none succeeds.                     *)
(***************************************************************************)
EXTENDS Advertisement, SequenceTheorems, WellFoundedInduction, TLAPS

-----------------------------------------------------------------------------
(* The command queue.                                                      *)

\* A command accepted goes behind the others.
LEMMA AppendFacts ==
    ASSUME NEW queue \in Seq(Ops), NEW command \in Ops
    PROVE  /\ Append(queue, command) \in Seq(Ops)
           /\ Len(Append(queue, command)) = Len(queue) + 1
           /\ DOMAIN Append(queue, command) = 1..(Len(queue) + 1)
           /\ DOMAIN queue = 1..Len(queue)
           /\ \A i \in 1..Len(queue) : Append(queue, command)[i] = queue[i]
           /\ Append(queue, command)[Len(queue) + 1] = command
  OBVIOUS

\* A command taken was the first.
LEMMA TailFacts ==
    ASSUME NEW queue \in Seq(Ops), queue # <<>>
    PROVE  /\ Tail(queue) \in Seq(Ops)
           /\ Len(queue) \in Nat \ {0}
           /\ Len(Tail(queue)) = Len(queue) - 1
           /\ DOMAIN Tail(queue) = 1..(Len(queue) - 1)
           /\ DOMAIN queue = 1..Len(queue)
           /\ \A i \in 1..(Len(queue) - 1) : Tail(queue)[i] = queue[i + 1]
           /\ Head(queue) = queue[1] /\ Head(queue) \in Ops
  OBVIOUS

\* The calls the queue and the answers name are numbers.
LEMMA CallFacts ==
    ASSUME TypeOK
    PROVE  /\ stops \in Nat /\ DOMAIN commands = 1..Len(commands) /\ Len(commands) \in Nat
           /\ \A answer \in answers : answer.call \in Nat
           /\ \A i \in DOMAIN commands : commands[i] \in Ops /\ commands[i].call \in Nat
<1>1. \A o \in Ops : o.call \in Nat BY AdvertisementAssumption DEF Ops
<1>2. stops \in Nat BY AdvertisementAssumption DEF TypeOK
<1>3. DOMAIN commands = 1..Len(commands) /\ Len(commands) \in Nat
  BY DEF TypeOK
<1>4. \A i \in DOMAIN commands : commands[i] \in Ops BY DEF TypeOK
<1>5. \A answer \in answers : answer \in Ops BY DEF TypeOK
<1>6. QED BY <1>1, <1>2, <1>3, <1>4, <1>5

-----------------------------------------------------------------------------
LEMMA InitIInv == Init => IInv
<1> SUFFICES ASSUME Init PROVE IInv
  OBVIOUS
<1>1. TypeOK
  <2>1. <<>> \in Seq(Ops) /\ <<>> \in Seq({"NameChange", "Error", "other"})
        /\ Len(<<>>) = 0
    OBVIOUS
  <2>2. commands \in Seq(Ops) /\ Len(commands) <= QueueCapacity
        /\ events \in Seq({"NameChange", "Error", "other"})
    BY <2>1, AdvertisementAssumption DEF Init
  <2>3. stops \in 0..MaxStops /\ reported \in 0..MaxEvents
    BY AdvertisementAssumption DEF Init
  <2>4. active \in BOOLEAN /\ unregistered \in BOOLEAN /\ failedStops \in BOOLEAN
    BY Zenon DEF Init
  <2>5. QED BY <2>2, <2>3, <2>4 DEF Init, TypeOK
<1>2. Phases /\ Room /\ Withdrawn /\ BehindExit
  BY DEF Init, Phases, Room, Withdrawn, BehindExit
<1>3. StoppedIsSilent /\ ExitIsRequested /\ FailedStopIsFinal
  BY DEF Init, StoppedIsSilent, ExitIsRequested, FailedStopIsFinal, GivenUp
<1>4. QED BY <1>1, <1>2, <1>3 DEF IInv

LEMMA StartKeepsIInv == IInv /\ Start => IInv'
<1> SUFFICES ASSUME IInv, Start PROVE IInv'
  OBVIOUS
<1> USE AdvertisementAssumption DEF IInv, TypeOK, Phases, Start
<1>1. /\ commands' \in Seq(Ops) /\ Len(commands') = 2 /\ DOMAIN commands' = {1, 2}
      /\ commands'[1] = Monitor /\ commands'[2] = Register
      /\ Monitor \in Ops /\ Register \in Ops
  BY DEF Monitor, Register, Op, Ops
<1>2. TypeOK' BY <1>1
<1>3. Phases' OBVIOUS
<1>4. Room' BY <1>1 DEF Room
<1>5. Withdrawn' BY <1>1 DEF Withdrawn, Monitor, Register, Op
<1>6. BehindExit' BY <1>1 DEF BehindExit, Monitor, Register, Op
<1>7. StoppedIsSilent' /\ ExitIsRequested' /\ FailedStopIsFinal'
  BY DEF StoppedIsSilent, ExitIsRequested, FailedStopIsFinal, GivenUp
<1>8. QED BY <1>2, <1>3, <1>4, <1>5, <1>6, <1>7

LEMMA StartFailsKeepsIInv == IInv /\ StartFails => IInv'
<1> SUFFICES ASSUME IInv, StartFails PROVE IInv'
  OBVIOUS
<1> USE AdvertisementAssumption DEF IInv, TypeOK, Phases, StartFails, BeforeDaemon
<1>1. /\ commands' \in Seq(Ops) /\ Len(commands') <= 2
      /\ daemon' # "running" => commands' = <<>>
      /\ daemon' = "running" => ExitPending'
      /\ \A i \in DOMAIN commands' : commands'[i].op # "register" /\ commands'[i].call = 0
  <2>1. CASE commands' = commands /\ daemon' # "running"
    BY <2>1
  <2>2. CASE commands' = <<Op("exit", 0)>> /\ daemon' = "running"
    <3>1. Op("exit", 0) \in Ops BY DEF Op, Ops
    <3>2. Len(commands') = 1 /\ DOMAIN commands' = {1} /\ commands'[1] = Op("exit", 0)
      BY <2>2
    <3>3. QED BY <2>2, <3>1, <3>2 DEF Op, ExitPending
  <2>3. CASE commands' = <<Monitor, Op("exit", 0)>> /\ daemon' = "running"
    <3>1. Monitor \in Ops /\ Op("exit", 0) \in Ops BY DEF Monitor, Op, Ops
    <3>2. /\ Len(commands') = 2 /\ DOMAIN commands' = {1, 2}
          /\ commands'[1] = Monitor /\ commands'[2] = Op("exit", 0)
      BY <2>3
    <3>3. QED BY <2>3, <3>1, <3>2 DEF Monitor, Op, ExitPending
  <2>4. QED BY <2>1, <2>2, <2>3
<1>2. TypeOK' BY <1>1 DEF Kinds
<1>3. Phases' BY <1>1
<1>4. Room' BY <1>1 DEF Room
<1>5. Withdrawn' BY <1>1 DEF Withdrawn
<1>6. BehindExit' BY <1>1 DEF BehindExit
<1>7. StoppedIsSilent' /\ ExitIsRequested' /\ FailedStopIsFinal'
  BY <1>1 DEF StoppedIsSilent, ExitIsRequested, FailedStopIsFinal, GivenUp
<1>8. QED BY <1>2, <1>3, <1>4, <1>5, <1>6, <1>7

-----------------------------------------------------------------------------
(* Stop.                                                                   *)

\* A step of the handle that leaves the queue and the answers alone, and opens
\* no call of stop, keeps what is said of them.
LEMMA CallStopKeepsIInv == IInv /\ (StopAgain \/ CallStop) => IInv'
<1> SUFFICES ASSUME IInv, StopAgain \/ CallStop PROVE IInv'
  OBVIOUS
<1> USE AdvertisementAssumption DEF IInv, StopAgain, CallStop, daemonVars
<1>1. TypeOK'
  <2>1. CASE StopAgain BY <2>1 DEF TypeOK
  <2>2. CASE CallStop BY <2>2 DEF TypeOK
  <2>3. QED BY <2>1, <2>2
<1>2. Phases' BY DEF Phases
<1>3. Room' BY DEF Phases, Room, ExitPending
<1>4. Withdrawn' BY DEF Phases, Withdrawn
<1>5. BehindExit' BY CallFacts DEF BehindExit
<1>6. StoppedIsSilent' BY DEF Phases, StoppedIsSilent
<1>7. ExitIsRequested'
  BY DEF Phases, StoppedIsSilent, ExitIsRequested, ExitPending, GivenUp
<1>8. FailedStopIsFinal' BY DEF FailedStopIsFinal
<1>9. QED BY <1>1, <1>2, <1>3, <1>4, <1>5, <1>6, <1>7, <1>8

\* A command of the current call goes to the end of the queue.
LEMMA SubmitFacts ==
    ASSUME IInv, handle = "open", NEW op \in {"unregister", "exit"}, Accepts(commands),
           commands' = Append(commands, Op(op, stops))
    PROVE  /\ commands' \in Seq(Ops) /\ Len(commands') <= QueueCapacity
           /\ Len(commands') = Len(commands) + 1
           /\ ExitPending => ExitPending'
           /\ op = "exit" => ExitPending'
           /\ DOMAIN commands' = 1..(Len(commands) + 1)
           /\ DOMAIN commands = 1..Len(commands)
           /\ \A i \in 1..Len(commands) : commands'[i] = commands[i]
           /\ commands'[Len(commands) + 1] = Op(op, stops)
<1>1. Op(op, stops) \in Ops /\ commands \in Seq(Ops) /\ Len(commands) \in Nat
  BY AdvertisementAssumption DEF IInv, TypeOK, Op, Ops
<1>2. /\ commands' \in Seq(Ops) /\ Len(commands') = Len(commands) + 1
      /\ DOMAIN commands' = 1..(Len(commands) + 1) /\ DOMAIN commands = 1..Len(commands)
      /\ \A i \in 1..Len(commands) : commands'[i] = commands[i]
      /\ commands'[Len(commands) + 1] = Op(op, stops)
  BY <1>1, AppendFacts
<1>3. Len(commands') <= QueueCapacity
  BY <1>1, <1>2, AdvertisementAssumption DEF Accepts
<1>4. ExitPending => ExitPending' BY <1>1, <1>2 DEF ExitPending
<1>5. op = "exit" => ExitPending' BY <1>1, <1>2 DEF ExitPending, Op
<1>6. QED BY <1>2, <1>3, <1>4, <1>5

\* Submitting it keeps what is said of the queue.
LEMMA SubmitKeeps ==
    ASSUME IInv, handle = "open", NEW op \in {"unregister", "exit"}, Accepts(commands),
           commands' = Append(commands, Op(op, stops)),
           pc' \in {"awaitUnregister", "awaitShutdown"},
           pc' = "awaitUnregister" => op = "unregister" /\ pc = "unregister",
           pc' = "awaitShutdown" => op = "exit" /\ pc = "shutdown",
           UNCHANGED <<handle, active, unregistered, result, stops, failedStops, known,
                       daemonVars, answers, events>>
    PROVE  IInv'
<1> USE DEF daemonVars
<1>0. /\ commands' \in Seq(Ops) /\ Len(commands') <= QueueCapacity
      /\ Len(commands') = Len(commands) + 1 /\ Len(commands) \in Nat
      /\ ExitPending => ExitPending'
      /\ op = "exit" => ExitPending'
      /\ DOMAIN commands' = 1..(Len(commands) + 1)
      /\ DOMAIN commands = 1..Len(commands)
      /\ \A i \in 1..Len(commands) : commands'[i] = commands[i]
      /\ commands'[Len(commands) + 1] = Op(op, stops)
  BY SubmitFacts DEF IInv, TypeOK
<1>1. TypeOK' BY <1>0 DEF IInv, TypeOK
<1>2. Phases' BY DEF IInv, Phases, Accepts
<1>3. Room' BY <1>0 DEF IInv, Room
<1>4. Withdrawn' BY <1>0 DEF IInv, Withdrawn, Op
<1>5. BehindExit'
  <2>1. failedStops => \E j \in 1..Len(commands) : commands[j].op = "exit"
    BY <1>0 DEF IInv, Phases, ExitIsRequested, GivenUp, ExitPending, Accepts
  <2>2. stops \in Nat /\ Op(op, stops).call = stops BY DEF IInv, TypeOK, Op
  <2>3. ASSUME failedStops
        PROVE  \A i \in DOMAIN commands' :
                  commands'[i].call = stops => \E j \in 1..(i - 1) : commands'[j].op = "exit"
    <3>1. SUFFICES ASSUME NEW i \in DOMAIN commands', commands'[i].call = stops
                   PROVE  \E j \in 1..(i - 1) : commands'[j].op = "exit"
      OBVIOUS
    <3>2. CASE i \in 1..Len(commands)
      BY <3>1, <3>2, <2>3, <1>0 DEF IInv, BehindExit
    <3>3. CASE i = Len(commands) + 1
      BY <3>3, <2>1, <2>3, <1>0
    <3>4. QED BY <3>1, <3>2, <3>3, <1>0
  <2>4. \A i \in DOMAIN commands' : commands'[i].call <= stops
    BY <1>0, <2>2 DEF IInv, BehindExit
  <2>5. QED BY <2>3, <2>4 DEF IInv, BehindExit
<1>6. StoppedIsSilent' BY DEF IInv, StoppedIsSilent
<1>7. ExitIsRequested' BY <1>0 DEF IInv, ExitIsRequested, GivenUp
<1>8. FailedStopIsFinal' BY DEF IInv, FailedStopIsFinal
<1>9. QED BY <1>1, <1>2, <1>3, <1>4, <1>5, <1>6, <1>7, <1>8 DEF IInv

\* The unregister of a stop has its result: the stop goes on to the shutdown.
LEMMA UnregisterEndsKeeps ==
    ASSUME IInv, NEW ok \in BOOLEAN, pc \in {"unregister", "awaitUnregister"},
           Unregistered(ok, "shutdown"), UNCHANGED commands, answers' \subseteq answers,
           ok => Op("unregister", stops) \in answers
    PROVE  IInv'
<1> USE DEF IInv, Unregistered, daemonVars
<1>1. TypeOK' BY DEF TypeOK
<1>2. Phases' BY DEF Phases
<1>3. Room' BY CallFacts DEF Room, ExitPending
<1>4. Withdrawn' BY DEF Withdrawn, Op
<1>5. BehindExit' BY DEF BehindExit, Phases
<1>6. StoppedIsSilent' /\ FailedStopIsFinal' BY DEF StoppedIsSilent, FailedStopIsFinal
<1>7. ExitIsRequested' BY DEF ExitIsRequested, GivenUp, ExitPending
<1>8. QED BY <1>1, <1>2, <1>3, <1>4, <1>5, <1>6, <1>7

\* A stop fails, the Exit being in the queue or the daemon gone.
LEMMA StopFailsKeeps ==
    ASSUME IInv, pc \in {"shutdown", "awaitShutdown"}, Return(Joined(FALSE)),
           UNCHANGED <<commands, answers>>, daemon = "running" => ExitPending
    PROVE  IInv'
<1> USE DEF IInv, Return, daemonVars
<1>1. Joined(FALSE) \in {"Unregister", "Shutdown"} BY DEF Joined
<1>2. TypeOK' BY <1>1, Zenon DEF TypeOK, Kinds
<1>3. Phases' BY <1>1 DEF Phases
<1>4. Room' BY DEF Room, ExitPending
<1>5. Withdrawn' BY DEF Withdrawn
<1>6. BehindExit' BY DEF BehindExit
<1>7. StoppedIsSilent' /\ FailedStopIsFinal'
  BY <1>1 DEF StoppedIsSilent, FailedStopIsFinal, Phases
<1>8. ExitIsRequested' BY DEF ExitIsRequested, GivenUp, ExitPending
<1>9. QED BY <1>2, <1>3, <1>4, <1>5, <1>6, <1>7, <1>8

\* The shutdown is answered, and the stop succeeds if its unregister did: what
\* was announced is taken back, and no stop had failed before.
LEMMA ShutdownAnsweredKeeps == IInv /\ ShutdownAnswered => IInv'
<1> SUFFICES ASSUME IInv, ShutdownAnswered PROVE IInv'
  OBVIOUS
<1> USE DEF IInv, ShutdownAnswered, Return, daemonVars
<1>1. daemon = "gone" BY DEF Withdrawn, Op
<1>2. ~failedStops BY DEF BehindExit, Op
<1>3. Joined(TRUE) \in {"ok", "Unregister"} BY DEF Joined
<1>4. TypeOK' BY <1>3, Zenon DEF TypeOK, Kinds
<1>5. Phases' BY <1>3 DEF Phases
<1>6. Room' BY <1>1 DEF Room
<1>7. Withdrawn' BY DEF Withdrawn
<1>8. BehindExit' BY DEF BehindExit
<1>9. StoppedIsSilent' BY <1>1, <1>3 DEF StoppedIsSilent, Phases, Withdrawn, Joined
<1>10. FailedStopIsFinal' BY <1>2 DEF FailedStopIsFinal
<1>11. ExitIsRequested' BY <1>1 DEF ExitIsRequested
<1>12. QED BY <1>4, <1>5, <1>6, <1>7, <1>8, <1>9, <1>10, <1>11

\* There is room for the commands of the first stop, so that only a queue with an
\* Exit in it, or a daemon that is gone, refuses one.
LEMMA RefusedOnlyLate ==
    ASSUME IInv, ~Accepts(commands), daemon = "running" PROVE ExitPending
  BY AdvertisementAssumption, CallFacts DEF IInv, Accepts, Room

LEMMA StopStepKeepsIInv == IInv /\ StopStep => IInv'
<1> SUFFICES ASSUME IInv, StopStep PROVE IInv'
  OBVIOUS
<1>0. pc # "idle" => handle = "open" BY DEF IInv, Phases
<1>1. CASE SubmitUnregister
  <2>1. CASE Accepts(commands)
    BY <1>0, <1>1, <2>1, SubmitKeeps DEF SubmitUnregister, Unregistered, UnregisterFails
  <2>2. CASE ~Accepts(commands)
    BY <1>1, <2>2, UnregisterEndsKeeps DEF SubmitUnregister, UnregisterFails
  <2>3. QED BY <2>1, <2>2
<1>2. CASE UnregisterAnswered BY <1>2, UnregisterEndsKeeps DEF UnregisterAnswered
<1>3. CASE UnregisterTimesOut
  BY <1>3, UnregisterEndsKeeps DEF UnregisterTimesOut, UnregisterFails
<1>4. CASE SubmitShutdown
  <2>1. CASE Accepts(commands)
    BY <1>0, <1>4, <2>1, SubmitKeeps DEF SubmitShutdown, Unregistered
  <2>2. CASE ~Accepts(commands)
    BY <1>4, <2>2, RefusedOnlyLate, StopFailsKeeps DEF SubmitShutdown
  <2>3. QED BY <2>1, <2>2
<1>5. CASE ShutdownAnswered BY <1>5, ShutdownAnsweredKeeps
<1>6. CASE ShutdownTimesOut
  <2>1. daemon = "running" => ExitPending BY <1>6 DEF IInv, Room, ShutdownTimesOut
  <2>2. QED BY <1>6, <2>1, StopFailsKeeps DEF ShutdownTimesOut
<1>7. QED BY <1>1, <1>2, <1>3, <1>4, <1>5, <1>6 DEF StopStep

-----------------------------------------------------------------------------
(* Drop, and polling.                                                      *)

\* What a drop sends keeps what is in the queue, and the Exit is in it afterwards
\* if there was room for both commands.
LEMMA TwoOffered ==
    ASSUME NEW queue \in Seq(Ops), Len(queue) <= QueueCapacity,
           NEW first \in Ops, first.op = "unregister", NEW last \in Ops, last.op = "exit",
           NEW two, two = Offered(Offered(queue, first), last)
    PROVE  /\ two \in Seq(Ops) /\ Len(two) <= QueueCapacity
           /\ DOMAIN two = 1..Len(two) /\ DOMAIN queue = 1..Len(queue)
           /\ Len(queue) \in Nat /\ Len(two) \in Nat /\ Len(queue) <= Len(two)
           /\ \A i \in DOMAIN two : \/ i \in DOMAIN queue
                                    \/ two[i].op \in {"unregister", "exit"}
           /\ \A i \in DOMAIN queue : i \in DOMAIN two /\ two[i] = queue[i]
           /\ daemon = "running" /\ Len(queue) <= 2 =>
                 \E i \in DOMAIN two : two[i].op = "exit"
           /\ daemon # "running" => two = queue
<1> DEFINE one == Append(queue, first)
           both == Append(one, last)
<1>0. Len(queue) \in Nat /\ DOMAIN queue = 1..Len(queue) OBVIOUS
<1>1. /\ one \in Seq(Ops) /\ Len(one) = Len(queue) + 1
      /\ DOMAIN one = 1..(Len(queue) + 1)
      /\ \A i \in 1..Len(queue) : one[i] = queue[i]
      /\ one[Len(queue) + 1] = first
  BY AppendFacts
<1> HIDE DEF one
<1>2. /\ both \in Seq(Ops) /\ Len(both) = Len(one) + 1
      /\ DOMAIN both = 1..(Len(one) + 1)
      /\ \A i \in 1..Len(one) : both[i] = one[i]
      /\ both[Len(one) + 1] = last
  BY <1>1, AppendFacts
<1> HIDE DEF both
<1>3. CASE ~Accepts(queue)
  <2>1. two = queue BY <1>3 DEF Offered
  <2>2. daemon = "running" => Len(queue) > 2
    BY <1>0, <1>3, AdvertisementAssumption DEF Accepts
  <2>3. QED BY <1>0, <2>1, <2>2
<1>4. CASE Accepts(queue) /\ ~Accepts(one)
  <2>1. two = one BY <1>4 DEF Offered, one
  <2>2. daemon = "running" /\ Len(queue) > 2 /\ Len(queue) < QueueCapacity
    BY <1>0, <1>1, <1>4, AdvertisementAssumption DEF Accepts
  <2>3. QED BY <1>0, <1>1, <2>1, <2>2, AdvertisementAssumption
<1>5. CASE Accepts(queue) /\ Accepts(one)
  <2>1. two = both BY <1>5 DEF Offered, one, both
  <2>2. daemon = "running" /\ Len(one) < QueueCapacity
    BY <1>5 DEF Accepts
  <2>3. /\ Len(two) = Len(queue) + 2 /\ DOMAIN two = 1..(Len(queue) + 2)
        /\ \A i \in 1..Len(queue) : two[i] = queue[i]
        /\ two[Len(queue) + 1] = first /\ two[Len(queue) + 2] = last
    BY <1>0, <1>1, <1>2, <2>1
  <2>4. QED BY <1>0, <1>1, <1>2, <2>1, <2>2, <2>3, AdvertisementAssumption
<1>6. QED BY <1>3, <1>4, <1>5

LEMMA DropKeepsIInv == IInv /\ Drop => IInv'
<1> SUFFICES ASSUME IInv, Drop PROVE IInv'
  OBVIOUS
<1> DEFINE first == Op("unregister", stops + 1)
           last == Op("exit", stops + 1)
           two == Offered(Offered(commands, first), last)
<1>1. /\ first \in Ops /\ first.op = "unregister" /\ last \in Ops /\ last.op = "exit"
      /\ commands \in Seq(Ops) /\ Len(commands) <= QueueCapacity
  BY AdvertisementAssumption DEF IInv, TypeOK, Op, Ops
<1>2. commands' = two \/ (commands' = commands /\ ~active)
  BY DEF Drop
<1>3. active => commands' = two
  BY DEF Drop
<1> HIDE DEF first, last
<1>4. /\ two \in Seq(Ops) /\ Len(two) <= QueueCapacity
      /\ DOMAIN two = 1..Len(two) /\ DOMAIN commands = 1..Len(commands)
      /\ Len(commands) \in Nat /\ Len(two) \in Nat /\ Len(commands) <= Len(two)
      /\ \A i \in DOMAIN two : \/ i \in DOMAIN commands
                               \/ two[i].op \in {"unregister", "exit"}
      /\ \A i \in DOMAIN commands : i \in DOMAIN two /\ two[i] = commands[i]
      /\ daemon = "running" /\ Len(commands) <= 2 =>
            \E i \in DOMAIN two : two[i].op = "exit"
      /\ daemon # "running" => two = commands
  BY <1>1, TwoOffered
<1> HIDE DEF two
<1>5. daemon = "running" => \E i \in DOMAIN two : two[i].op = "exit"
  BY <1>4 DEF IInv, Room, Phases, ExitPending, Drop
<1>6. commands' \in Seq(Ops) /\ Len(commands') <= QueueCapacity
  BY <1>1, <1>2, <1>4
<1> USE DEF Drop, daemonVars
<1>7. TypeOK' BY <1>6 DEF IInv, TypeOK
<1>8. StoppedIsSilent' BY DEF IInv, StoppedIsSilent
<1>9. daemon = "running" => ExitPending'
  BY <1>3, <1>5 DEF IInv, StoppedIsSilent, ExitPending
<1>10. Phases' BY <1>2, <1>4 DEF IInv, Phases
<1>11. Room' BY <1>9 DEF Room
<1>12. Withdrawn'
  <2>1. CASE commands' = commands BY <2>1 DEF IInv, Withdrawn
  <2>2. CASE commands' = two
    <3>1. ASSUME NEW i \in DOMAIN two, NEW j \in DOMAIN two, i < j, two[j].op = "register"
          PROVE  two[i].op = "monitor"
      <4>1. j \in DOMAIN commands /\ two[j] = commands[j] BY <1>4, <3>1
      <4>2. i \in DOMAIN commands /\ two[i] = commands[i] BY <1>4, <3>1, <4>1
      <4>3. QED BY <3>1, <4>1, <4>2 DEF IInv, Withdrawn
    <3>2. ASSUME \A i \in DOMAIN commands : commands[i].op # "register"
          PROVE  \A i \in DOMAIN two : two[i].op # "register"
      BY <1>4, <3>2
    <3>3. QED BY <2>2, <3>1, <3>2 DEF IInv, Withdrawn
  <2>3. QED BY <1>2, <2>1, <2>2
<1>13. BehindExit' BY DEF BehindExit
<1>14. ExitIsRequested' BY <1>9 DEF ExitIsRequested
<1>15. FailedStopIsFinal' BY DEF IInv, FailedStopIsFinal
<1>16. QED BY <1>7, <1>8, <1>10, <1>11, <1>12, <1>13, <1>14, <1>15 DEF IInv

\* A set of numbers has a least one.
LEMMA HasLeast ==
    ASSUME NEW set \in SUBSET Nat, set # {}
    PROVE  \E i \in set : \A j \in set : i <= j
<1> DEFINE less == OpToRel(<, Nat)
<1>1. IsWellFoundedOn(less, Nat) BY NatLessThanWellFounded
<1>2. \A i, j \in Nat : i < j => <<i, j>> \in less BY DEF OpToRel
<1> HIDE DEF less
<1>3. \E i \in set : \A j \in set : ~ (<<j, i>> \in less) BY <1>1, WFMin
<1>4. PICK i \in set : \A j \in set : ~ (<<j, i>> \in less) BY <1>3
<1>5. \A j \in set : i <= j
  <2>1. SUFFICES ASSUME NEW j \in set, ~ (i <= j) PROVE FALSE
    OBVIOUS
  <2>2. i \in Nat /\ j \in Nat /\ j < i BY <2>1
  <2>3. <<j, i>> \in less BY <1>2, <2>2
  <2>4. QED BY <1>4, <2>1, <2>3
<1>6. QED BY <1>5

\* Polling reads up to the first noteworthy event, or the whole queue.
LEMMA ReadUpToFacts ==
    ASSUME events \in Seq({"NameChange", "Error", "other"})
    PROVE  /\ ReadUpTo \in 0..Len(events) /\ Len(events) \in Nat
           /\ events # <<>> => ReadUpTo \in 1..Len(events)
           /\ \A i \in 1..Len(events) : Noteworthy(events[i]) => ReadUpTo <= i
<1> DEFINE first == {i \in DOMAIN events : Noteworthy(events[i])}
<1>1. DOMAIN events = 1..Len(events) /\ Len(events) \in Nat
      /\ (events # <<>> => Len(events) > 0)
  OBVIOUS
<1>2. CASE first = {} BY <1>1, <1>2 DEF ReadUpTo
<1>3. CASE first # {}
  <2>1. first \subseteq Nat BY <1>1
  <2>2. \E i \in first : \A j \in first : i <= j
    BY <1>3, <2>1, HasLeast
  <2>3. ReadUpTo \in first /\ \A j \in first : ReadUpTo <= j
    BY <1>3, <2>2 DEF ReadUpTo
  <2>4. QED BY <1>1, <2>3
<1>4. QED BY <1>2, <1>3

LEMMA PollKeepsIInv == IInv /\ PollEvent => IInv'
<1> SUFFICES ASSUME IInv, PollEvent PROVE IInv'
  OBVIOUS
<1> USE DEF PollEvent, daemonVars
<1>1. events' \in Seq({"NameChange", "Error", "other"})
  BY ReadUpToFacts DEF IInv, TypeOK
<1>2. TypeOK'
  <2>1. known' \in {"requested", "replacement"} BY DEF IInv, TypeOK
  <2>2. QED BY <1>1, <2>1 DEF IInv, TypeOK
<1>3. QED
  BY <1>2 DEF IInv, Phases, Room, Withdrawn, BehindExit, StoppedIsSilent, ExitIsRequested,
              FailedStopIsFinal, GivenUp, ExitPending

-----------------------------------------------------------------------------
(* The daemon.                                                             *)

\* What holds of the queue once the daemon has taken its head, which was no Exit.
LEMMA TakenFacts ==
    ASSUME IInv, NEW op \in {"monitor", "register", "unregister"}, Takes(op),
           commands' = Tail(commands)
    PROVE  /\ commands' \in Seq(Ops) /\ Len(commands') <= Len(commands)
           /\ Len(commands) <= QueueCapacity
           /\ Len(commands) \in Nat /\ Len(commands') \in Nat
           /\ DOMAIN commands = 1..Len(commands) /\ 1 \in DOMAIN commands
           /\ DOMAIN commands' = 1..(Len(commands) - 1)
           /\ \A i \in DOMAIN commands' :
                 i + 1 \in DOMAIN commands /\ commands'[i] = commands[i + 1]
           /\ commands[1] = Head(commands) /\ commands[1] \in Ops /\ commands[1].op = op
           /\ ExitPending => ExitPending'
<1>1. commands \in Seq(Ops) /\ commands # <<>> /\ Head(commands).op = op
      /\ Len(commands) <= QueueCapacity
  BY DEF IInv, TypeOK, Takes
<1>2. /\ Tail(commands) \in Seq(Ops)
      /\ Len(commands) \in Nat \ {0}
      /\ Len(Tail(commands)) = Len(commands) - 1
      /\ DOMAIN Tail(commands) = 1..(Len(commands) - 1)
      /\ DOMAIN commands = 1..Len(commands)
      /\ \A i \in 1..(Len(commands) - 1) : Tail(commands)[i] = commands[i + 1]
      /\ Head(commands) = commands[1] /\ Head(commands) \in Ops
  BY <1>1, TailFacts
<1>3. \A i \in DOMAIN commands' :
         i + 1 \in DOMAIN commands /\ commands'[i] = commands[i + 1]
  BY <1>2
<1>4. ASSUME ExitPending PROVE ExitPending'
  <2>1. PICK i \in DOMAIN commands : commands[i].op = "exit" BY <1>4 DEF ExitPending
  <2>2. i # 1 BY <1>1, <1>2, <2>1
  <2>3. i - 1 \in DOMAIN commands' /\ commands'[i - 1] = commands[i]
    BY <1>2, <1>3, <2>1, <2>2
  <2>4. QED BY <2>1, <2>3 DEF ExitPending
<1>5. QED BY <1>1, <1>2, <1>3, <1>4

LEMMA TakesKeepsIInv ==
    IInv /\ (DaemonMonitors \/ DaemonRegisters \/ DaemonUnregisters) => IInv'
<1> SUFFICES ASSUME IInv, DaemonMonitors \/ DaemonRegisters \/ DaemonUnregisters
             PROVE  IInv'
  OBVIOUS
<1> USE DEF daemonVars, sessionVars
<1>0. PICK op \in {"monitor", "register", "unregister"} :
         Takes(op) /\ commands' = Tail(commands)
              /\ (op = "monitor" => DaemonMonitors) /\ (op = "register" => DaemonRegisters)
              /\ (op = "unregister" => DaemonUnregisters)
  BY DEF DaemonMonitors, DaemonRegisters, DaemonUnregisters
<1>1. /\ commands' \in Seq(Ops) /\ Len(commands') <= Len(commands)
      /\ Len(commands) <= QueueCapacity
      /\ Len(commands) \in Nat /\ Len(commands') \in Nat
      /\ DOMAIN commands = 1..Len(commands) /\ 1 \in DOMAIN commands
      /\ DOMAIN commands' = 1..(Len(commands) - 1)
      /\ \A i \in DOMAIN commands' :
            i + 1 \in DOMAIN commands /\ commands'[i] = commands[i + 1]
      /\ commands[1] = Head(commands) /\ commands[1] \in Ops /\ commands[1].op = op
      /\ ExitPending => ExitPending'
  BY <1>0, TakenFacts
<1>2. /\ UNCHANGED <<handle, active, pc, unregistered, result, stops, failedStops, known,
                     daemon, events, reported>>
      /\ daemon = "running"
      /\ answers' \subseteq answers \cup {commands[1]} /\ answers \subseteq answers'
      /\ op # "unregister" => answers' = answers
      /\ op = "monitor" => UNCHANGED <<serving, announced>>
      /\ op = "register" => serving' = "requested" /\ announced' = announced \cup {"requested"}
      /\ op = "unregister" =>
            \/ serving' = "nothing" /\ announced' = announced \ {serving}
            \/ serving = "replacement" /\ UNCHANGED <<serving, announced>>
  BY <1>0, <1>1 DEF DaemonMonitors, DaemonRegisters, DaemonUnregisters, Takes
<1>3. TypeOK'
  <2>1. answers' \subseteq Ops BY <1>1, <1>2 DEF IInv, TypeOK
  <2>2. /\ serving' \in {"nothing", "requested", "replacement"}
        /\ announced' \subseteq {"requested", "replacement"}
    BY <1>0, <1>2 DEF IInv, TypeOK
  <2>3. Len(commands') <= QueueCapacity
    BY <1>1, AdvertisementAssumption
  <2>4. QED BY <1>1, <1>2, <2>1, <2>2, <2>3 DEF IInv, TypeOK
<1>4. Phases' BY <1>1, <1>2 DEF IInv, Phases
<1>5. Room' BY <1>1, <1>2 DEF IInv, Room
<1>6. Withdrawn'
  <2>1. ASSUME NEW i \in DOMAIN commands', NEW j \in DOMAIN commands', i < j,
               commands'[j].op = "register"
        PROVE  commands'[i].op = "monitor"
    BY <1>1, <2>1 DEF IInv, Withdrawn
  <2>2. "requested" \in announced' => serving' = "requested"
    BY <1>0, <1>2 DEF IInv, Withdrawn
  <2>3. \A answer \in answers' : answer.op # "exit"
    BY <1>1, <1>2 DEF IInv, Withdrawn
  <2>4. ASSUME op = "unregister"
        PROVE  /\ "requested" \notin announced'
               /\ \A i \in DOMAIN commands' : commands'[i].op # "register"
    <3>1. "requested" \notin announced' BY <1>2, <2>4 DEF IInv, Withdrawn
    <3>2. ASSUME NEW i \in DOMAIN commands', commands'[i].op = "register" PROVE FALSE
      BY <1>1, <2>4, <3>2 DEF IInv, Withdrawn
    <3>3. QED BY <3>1, <3>2
  <2>5. CASE op = "unregister" BY <1>2, <2>1, <2>2, <2>3, <2>4, <2>5 DEF Withdrawn
  <2>6. CASE op = "register"
    <3>1. /\ \A answer \in answers' : answer.op # "unregister"
          /\ ~(unregistered /\ pc \in {"shutdown", "awaitShutdown"})
      BY <1>1, <1>2, <2>6 DEF IInv, Withdrawn
    <3>2. QED BY <1>2, <2>1, <2>2, <2>3, <3>1 DEF Withdrawn
  <2>7. CASE op = "monitor"
    BY <1>1, <1>2, <2>1, <2>2, <2>3, <2>7 DEF IInv, Withdrawn
  <2>8. QED BY <1>0, <2>5, <2>6, <2>7
<1>7. BehindExit'
  <2>1. handle = "open" => /\ \A answer \in answers' : answer.call <= stops
                           /\ \A i \in DOMAIN commands' : commands'[i].call <= stops
    BY <1>1, <1>2 DEF IInv, BehindExit
  <2>2. ASSUME failedStops, pc # "idle"
        PROVE  /\ \A answer \in answers' : answer.call # stops
               /\ \A i \in DOMAIN commands' : commands'[i].call = stops =>
                     \E j \in 1..(i - 1) : commands'[j].op = "exit"
    <3>1. commands[1].call # stops BY <1>1, <2>2 DEF IInv, BehindExit
    <3>2. ASSUME NEW i \in DOMAIN commands', commands'[i].call = stops
          PROVE  \E j \in 1..(i - 1) : commands'[j].op = "exit"
      <4>1. i \in Nat /\ i + 1 \in DOMAIN commands /\ commands[i + 1].call = stops
        BY <1>1, <3>2
      <4>2. PICK j \in 1..((i + 1) - 1) : commands[j].op = "exit"
        BY <2>2, <4>1 DEF IInv, BehindExit
      <4>3. j # 1 BY <1>0, <1>1, <4>2
      <4>4. j - 1 \in 1..(i - 1) /\ j - 1 \in DOMAIN commands'
        BY <1>1, <3>2, <4>1, <4>2, <4>3
      <4>5. commands'[j - 1] = commands[j]
        <5>1. (j - 1) + 1 = j BY <4>2
        <5>2. QED BY <1>1, <4>4, <5>1
      <4>6. QED BY <4>2, <4>4, <4>5
    <3>3. \A answer \in answers' : answer.call # stops
      BY <1>2, <2>2, <3>1 DEF IInv, BehindExit
    <3>4. QED BY <3>2, <3>3
  <2>3. QED BY <1>2, <2>1, <2>2 DEF BehindExit
<1>8. StoppedIsSilent' BY <1>1, <1>2 DEF IInv, StoppedIsSilent
<1>9. ExitIsRequested' BY <1>1, <1>2 DEF IInv, ExitIsRequested, GivenUp
<1>10. FailedStopIsFinal' BY <1>2 DEF IInv, FailedStopIsFinal
<1>11. QED BY <1>3, <1>4, <1>5, <1>6, <1>7, <1>8, <1>9, <1>10 DEF IInv

\* The daemon exits, or dies: an Exit answered belongs to no call that follows a
\* failed stop.
LEMMA EndsKeepsIInv == IInv /\ (DaemonExits \/ DaemonDies) => IInv'
<1> SUFFICES ASSUME IInv, DaemonExits \/ DaemonDies PROVE IInv'
  OBVIOUS
<1> USE DEF daemonVars, sessionVars
<1>1. /\ UNCHANGED <<handle, active, pc, unregistered, result, stops, failedStops, known,
                     announced, events, reported>>
      /\ daemon = "running" /\ daemon' = "gone" /\ commands' = <<>> /\ serving' = "nothing"
      /\ \/ UNCHANGED answers
         \/ /\ answers' = answers \cup {commands[1]} /\ commands[1] \in Ops
            /\ 1 \in DOMAIN commands /\ commands[1].op = "exit"
  <2>1. CASE DaemonDies BY <2>1 DEF DaemonDies
  <2>2. CASE DaemonExits
    <3>1. commands \in Seq(Ops) /\ commands # <<>> BY <2>2 DEF DaemonExits, Takes, IInv, TypeOK
    <3>2. commands[1] = Head(commands) /\ commands[1] \in Ops /\ 1 \in DOMAIN commands
      BY <3>1, TailFacts
    <3>3. QED BY <2>2, <3>2 DEF DaemonExits, Takes
  <2>3. QED BY <2>1, <2>2
<1>2. commands' \in Seq(Ops) /\ Len(commands') = 0 /\ DOMAIN commands' = {}
  BY <1>1
<1>3. TypeOK'
  <2>1. answers' \subseteq Ops BY <1>1 DEF IInv, TypeOK
  <2>2. Len(commands') <= QueueCapacity BY <1>2, AdvertisementAssumption
  <2>3. QED BY <1>1, <1>2, <2>1, <2>2 DEF IInv, TypeOK
<1>4. Phases' BY <1>1 DEF IInv, Phases
<1>5. Room' BY <1>1 DEF IInv, Room
<1>6. Withdrawn' BY <1>1, <1>2 DEF IInv, Withdrawn
<1>7. BehindExit' BY <1>1, <1>2 DEF IInv, BehindExit
<1>8. StoppedIsSilent' BY <1>1 DEF IInv, StoppedIsSilent
<1>9. ExitIsRequested' BY <1>1 DEF ExitIsRequested
<1>10. FailedStopIsFinal' BY <1>1 DEF IInv, FailedStopIsFinal
<1>11. QED BY <1>3, <1>4, <1>5, <1>6, <1>7, <1>8, <1>9, <1>10 DEF IInv

LEMMA ReportsKeepsIInv == IInv /\ (DaemonRenames \/ DaemonReports) => IInv'
<1> SUFFICES ASSUME IInv, DaemonRenames \/ DaemonReports PROVE IInv'
  OBVIOUS
<1> USE DEF daemonVars, sessionVars, DaemonRenames, DaemonReports
<1>1. /\ UNCHANGED <<handle, active, pc, unregistered, result, stops, failedStops, known,
                     daemon, commands, answers>>
      /\ daemon = "running"
      /\ \/ UNCHANGED <<serving, announced>>
         \/ /\ serving' = "replacement"
            /\ announced' = (announced \ {"requested"}) \cup {"replacement"}
  OBVIOUS
<1>2. TypeOK'
  <2>1. reported' \in 0..MaxEvents BY AdvertisementAssumption DEF IInv, TypeOK
  <2>2. PICK event \in {"NameChange", "Error", "other"} : events' = Append(events, event)
    OBVIOUS
  <2>3. events' \in Seq({"NameChange", "Error", "other"}) BY <2>2 DEF IInv, TypeOK
  <2>4. /\ serving' \in {"nothing", "requested", "replacement"}
        /\ announced' \subseteq {"requested", "replacement"}
    BY <1>1 DEF IInv, TypeOK
  <2>5. QED BY <1>1, <2>1, <2>3, <2>4 DEF IInv, TypeOK
<1>3. Phases' /\ Room' BY <1>1 DEF IInv, Phases, Room, ExitPending
<1>4. Withdrawn' BY <1>1 DEF IInv, Withdrawn
<1>5. BehindExit' BY <1>1 DEF IInv, BehindExit
<1>6. StoppedIsSilent' BY <1>1 DEF IInv, StoppedIsSilent
<1>7. ExitIsRequested' /\ FailedStopIsFinal'
  BY <1>1 DEF IInv, ExitIsRequested, GivenUp, ExitPending, FailedStopIsFinal
<1>8. QED BY <1>2, <1>3, <1>4, <1>5, <1>6, <1>7 DEF IInv

-----------------------------------------------------------------------------
LEMMA StepKeepsIInv == IInv /\ [Next]_vars => IInv'
<1> SUFFICES ASSUME IInv, [Next]_vars PROVE IInv'
  OBVIOUS
<1>1. CASE UNCHANGED vars
  BY <1>1 DEF IInv, TypeOK, Phases, Room, Withdrawn, BehindExit, StoppedIsSilent,
              ExitIsRequested, FailedStopIsFinal, GivenUp, ExitPending, vars, sessionVars,
              daemonVars
<1>2. CASE Over BY <1>1, <1>2 DEF Over
<1>3. QED
  BY <1>1, <1>2, StartKeepsIInv, StartFailsKeepsIInv, CallStopKeepsIInv, StopStepKeepsIInv,
     DropKeepsIInv, PollKeepsIInv, TakesKeepsIInv, EndsKeepsIInv, ReportsKeepsIInv
  DEF Next, DaemonTakes

\* The argument of all the theorems: IInv is inductive.
THEOREM Inductive == Spec => []IInv
BY InitIInv, StepKeepsIInv, PTL DEF Spec

\* Every variable has the shape its type gives it.
THEOREM TypeCorrect == Spec => []TypeOK
<1>1. IInv => TypeOK BY DEF IInv
<1>2. QED BY Inductive, <1>1, PTL

\* However start, stop or drop went, timeouts and refusals included, the daemon
\* is asked to exit: its queue has room for the commands of the first stop or of
\* the drop, and refuses only those that come behind an Exit.
THEOREM AlwaysAskedToExit == Spec => []ExitIsRequested
<1>1. IInv => ExitIsRequested BY DEF IInv
<1>2. QED BY Inductive, <1>1, PTL

\* A stop that succeeds leaves no daemon, and has taken back the registration,
\* because the daemon takes the commands in order.
THEOREM SilentAfterStop == Spec => []StoppedIsSilent
<1>1. IInv => StoppedIsSilent BY DEF IInv
<1>2. QED BY Inductive, <1>1, PTL

\* After a stop that failed no stop succeeds: its commands come behind an Exit,
\* and are never answered.
THEOREM FailureIsFinal == Spec => []FailedStopIsFinal
<1>1. IInv => FailedStopIsFinal BY DEF IInv
<1>2. QED BY Inductive, <1>1, PTL

-----------------------------------------------------------------------------
(* What polling tells.                                                     *)

\* What is behind the events read stays in the queue.
LEMMA RestFacts ==
    ASSUME NEW E, NEW queue \in Seq(E), NEW r \in 1..Len(queue),
           NEW i \in 1..Len(queue), r < i
    PROVE  /\ i - r \in DOMAIN SubSeq(queue, r + 1, Len(queue))
           /\ SubSeq(queue, r + 1, Len(queue))[i - r] = queue[i]
<1>1. \A k \in (r + 1)..Len(queue) : queue[k] \in E OBVIOUS
<1>2. /\ SubSeq(queue, r + 1, Len(queue)) \in Seq(E)
      /\ Len(SubSeq(queue, r + 1, Len(queue))) = Len(queue) - r
      /\ \A k \in 1..(Len(queue) - (r + 1) + 1) :
            SubSeq(queue, r + 1, Len(queue))[k] = queue[(r + 1) + k - 1]
  BY <1>1, SubSeqProperties
<1>3. i - r \in 1..(Len(queue) - (r + 1) + 1) /\ (r + 1) + (i - r) - 1 = i OBVIOUS
<1>4. QED BY <1>2, <1>3

\* A change of name leaves the queue of events only by being told.
LEMMA PollTells ==
    ASSUME TypeOK, RenameIsTold, PollEvent PROVE RenameIsTold'
<1> SUFFICES ASSUME "replacement" \in announced, known # "replacement",
                    known' # "replacement"
             PROVE  \E i \in DOMAIN events' : events'[i] = "NameChange"
  BY DEF RenameIsTold, PollEvent, daemonVars
<1>1. PICK i \in DOMAIN events : events[i] = "NameChange" BY DEF RenameIsTold
<1>2. /\ DOMAIN events = 1..Len(events) /\ Len(events) \in Nat /\ events # <<>>
      /\ events \in Seq({"NameChange", "Error", "other"})
  BY <1>1 DEF TypeOK
<1>3. ReadUpTo \in 1..Len(events) /\ ReadUpTo <= i
  BY <1>1, <1>2, ReadUpToFacts DEF Noteworthy
<1>4. ReadUpTo # i BY <1>1, <1>2 DEF PollEvent
<1>5. events' = SubSeq(events, ReadUpTo + 1, Len(events)) BY DEF PollEvent
<1> HIDE DEF ReadUpTo
<1>6. i - ReadUpTo \in DOMAIN events' /\ events'[i - ReadUpTo] = events[i]
  BY <1>1, <1>2, <1>3, <1>4, <1>5, RestFacts
<1>7. QED BY <1>1, <1>6

\* The owner who polls learns of every change of name, also of one whose
\* announcement outlives a stop.
THEOREM NameChangesTold == Spec => []RenameIsTold
<1>1. Init => RenameIsTold BY DEF Init, RenameIsTold
<1>2. TypeOK /\ RenameIsTold /\ [Next]_vars => RenameIsTold'
  <2> SUFFICES ASSUME TypeOK, RenameIsTold, [Next]_vars PROVE RenameIsTold'
    OBVIOUS
  <2> USE DEF sessionVars, daemonVars
  <2>1. CASE PollEvent BY <2>1, PollTells
  <2>2. CASE DaemonRenames
    <3>1. events \in Seq({"NameChange", "Error", "other"}) BY DEF TypeOK
    <3>2. events' = Append(events, "NameChange") BY <2>2 DEF DaemonRenames
    <3>3. Len(events) + 1 \in DOMAIN events' /\ events'[Len(events) + 1] = "NameChange"
      BY <3>1, <3>2
    <3>4. QED BY <3>3 DEF RenameIsTold
  <2>3. CASE DaemonReports
    <3>1. events \in Seq({"NameChange", "Error", "other"}) BY DEF TypeOK
    <3>2. PICK event \in {"Error", "other"} : events' = Append(events, event)
      BY <2>3 DEF DaemonReports
    <3>3. DOMAIN events \subseteq DOMAIN events' /\ \A i \in DOMAIN events : events'[i] = events[i]
      BY <3>1, <3>2
    <3>4. QED BY <2>3, <3>3 DEF RenameIsTold, DaemonReports
  <2>4. CASE Start \/ StartFails \/ StopAgain \/ CallStop \/ Drop \/ Over
    BY <2>4 DEF RenameIsTold, Start, StartFails, StopAgain, CallStop, Drop, Over, vars
  <2>5. CASE StopStep
    BY <2>5 DEF RenameIsTold, StopStep, SubmitUnregister, UnregisterAnswered,
                UnregisterTimesOut, SubmitShutdown, ShutdownAnswered, ShutdownTimesOut,
                UnregisterFails, Unregistered, Return
  <2>6. CASE DaemonTakes \/ DaemonDies
    BY <2>6 DEF RenameIsTold, DaemonTakes, DaemonMonitors, DaemonRegisters,
                DaemonUnregisters, DaemonExits, DaemonDies
  <2>7. CASE UNCHANGED vars BY <2>7 DEF RenameIsTold, vars
  <2>8. QED BY <2>1, <2>2, <2>3, <2>4, <2>5, <2>6, <2>7 DEF Next
<1>3. QED BY <1>1, <1>2, TypeCorrect, PTL DEF Spec
=============================================================================
