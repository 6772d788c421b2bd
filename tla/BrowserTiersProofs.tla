------------------------- MODULE BrowserTiersProofs -------------------------
(***************************************************************************)
(* Proofs about BrowserTiers, for any number of threads, fetches and       *)
(* permits and any mix of tiers: the ceilings count exactly the threads    *)
(* left behind and are overrun by no more than the callers, no caller      *)
(* finds an empty holder, no sweep kills a process of another fetch behind *)
(* the gate, and a browser that comes up late does not outlive its thread. *)
(*                                                                         *)
(* Caller and thread of a fetch meet at the claim: Claims says where each  *)
(* of them is once it is won, and the rest of a fetch's invariant follows  *)
(* its winner. What a caller kills by novelty it kills as the only holder  *)
(* of the gate, so whatever it freezes belongs to itself or to fetches     *)
(* that are over.                                                          *)
(***************************************************************************)
EXTENDS BrowserTiers, FiniteSetTheorems, TLAPS

MainPc == {"idle", "gate", "watch", "kill", "grace", "count", "join", "fetch",
           "stuck", "late", "done"}

ThreadPc == {"off", "start", "driver", "page", "gap", "read", "end", "built",
             "finished", "lost", "sweep", "quit", "fin", "over"}

\* TypeOK without the bounds that follow from the counts.
Typed ==
    /\ tier \in [Fetch -> Tier \cup {"unused"}] /\ capacity \in Nat \ {0}
    /\ psutil \in BOOLEAN
    /\ [tier |-> tier, capacity |-> capacity, psutil |-> psutil] \in Setups
    /\ permits \in Nat
    /\ abandoned \in [{"browser", "camoufox"} -> Int]
    /\ main \in [Fetch -> MainPc]
    /\ run \in [Fetch -> ThreadPc]
    /\ procs \subseteq Process
    /\ baseline \in [Fetch -> SUBSET Process]
    /\ frozen \in [Fetch -> SUBSET Process]
    /\ alarm \in [Fetch -> {"none", "read", "fetch", "teardown"}]
    /\ claimed \in [Fetch -> {"none", "main", "run"}]
    /\ holder \in [Fetch -> {"none", "result", "error"}]
    /\ counted \in [Fetch -> BOOLEAN]
    /\ outcome \in [Fetch -> {"none", "refused", "gate", "watchdog", "result", "error"}]

\* The steps of the thread in each tier.
ThreadKnown(f) ==
    /\ tier[f] = "unused" => run[f] = "off"
    /\ IsBrowser(f) => run[f] \in {"off", "start", "page", "read", "end", "lost", "fin", "over"}
    /\ IsCamoufox(f) => run[f] \in {"off", "start", "driver", "page", "end", "finished",
                                    "lost", "over"}
    /\ IsUc(f) => run[f] \in {"off", "start", "built", "lost", "sweep", "page", "gap",
                              "read", "quit", "over"}
    /\ main[f] \in {"idle", "gate"} => run[f] = "off" /\ claimed[f] = "none"
    /\ run[f] = "off" => main[f] \in {"idle", "gate", "done"}

\* Where caller and thread are when neither, the caller or the thread has won.
Claims(f) ==
    /\ claimed[f] = "none" =>
         /\ main[f] \in {"idle", "gate", "watch", "done"}
         /\ main[f] = "done" => run[f] = "off"
         /\ run[f] \in {"off", "start", "driver", "page", "read", "end", "built", "finished"}
         /\ IsUc(f) => run[f] \in {"off", "start", "built"}
    /\ claimed[f] = "main" =>
         /\ main[f] \in {"count", "kill", "grace", "done"}
         /\ IsUc(f) => run[f] \in {"off", "start", "built", "lost", "sweep", "over"}
    /\ claimed[f] = "run" =>
         /\ main[f] \in {"watch", "join", "fetch", "stuck", "late", "done"}
         /\ ~IsUc(f) => run[f] \in {"fin", "over"} /\ main[f] \in {"watch", "join", "done"}
         /\ IsUc(f) => run[f] \in {"page", "gap", "read", "quit", "over"}
         /\ IsUc(f) /\ main[f] \in {"watch", "join"} => run[f] = "over"

\* When the holder has an outcome for the caller.
Filled(f) ==
    /\ run[f] \in {"end", "finished", "built", "quit"} => holder[f] # "none"
    /\ claimed[f] = "run" /\ run[f] \in {"fin", "over"} => holder[f] # "none"
    /\ alarm[f] = "teardown" =>
         holder[f] # "none" /\ claimed[f] = "run" /\ run[f] \in {"quit", "over"}
    /\ main[f] = "done" => outcome[f] # "none"
    /\ outcome[f] = "watchdog" => main[f] = "done"

\* A thread is counted by its caller's last step but the kills of camoufox.
CountedLate(f) ==
    counted[f] => main[f] = "done" \/ (IsCamoufox(f) /\ main[f] \in {"kill", "grace"})

Local(f) == ThreadKnown(f) /\ Claims(f) /\ Filled(f) /\ CountedLate(f)

\* The steps of the thread after which no browser of the fetch is left.
Closed(f) ==
    \/ ~IsUc(f) /\ run[f] \in {"end", "finished", "lost", "fin", "over"}
    \/ /\ IsUc(f) /\ run[f] = "over"
       /\ \/ claimed[f] = "main"
          \/ main[f] \in {"fetch", "stuck", "late"}
          \/ outcome[f] = "watchdog"

Gone(f) == Closed(f) => <<f, "browser">> \notin procs

\* Only fetches that have entered the gate have processes.
ProcsKnown == \A p \in procs : run[p[1]] # "off"

\* What is frozen for a later kill is the fetch's own or of one that is over.
FrozenSafe ==
    \A g \in Fetch : \A p \in frozen[g] \cap procs : p[1] = g \/ main[p[1]] = "done"

Holders == {f \in Fetch : HoldsGate(f)}
PermitsExact == permits + Cardinality(Holders) = capacity

OnePerCaller ==
    \A f, g \in Fetch : InFetch(f) /\ InFetch(g) /\ CallerOf[f] = CallerOf[g] => f = g

IInv ==
    /\ Typed /\ \A f \in Fetch : Local(f) /\ Gone(f)
    /\ ProcsKnown /\ FrozenSafe /\ PermitsExact
    /\ CountExact /\ OnePerCaller /\ CeilingHolds

-----------------------------------------------------------------------------
(* What a step of a fetch may change                                        *)

Step(f) == SharedStep(f) \/ TierStep(f)

\* A step of f leaves the other fetches where they are.
Frame(f) ==
    /\ UNCHANGED <<psutil, capacity, tier>>
    /\ \A g \in Fetch \ {f} :
         /\ main'[g] = main[g] /\ run'[g] = run[g] /\ alarm'[g] = alarm[g]
         /\ claimed'[g] = claimed[g] /\ holder'[g] = holder[g]
         /\ counted'[g] = counted[g] /\ outcome'[g] = outcome[g]

\* The types of what belongs to one fetch each.
Fields ==
    /\ main \in [Fetch -> MainPc]
    /\ run \in [Fetch -> ThreadPc]
    /\ alarm \in [Fetch -> {"none", "read", "fetch", "teardown"}]
    /\ claimed \in [Fetch -> {"none", "main", "run"}]
    /\ holder \in [Fetch -> {"none", "result", "error"}]
    /\ counted \in [Fetch -> BOOLEAN]
    /\ outcome \in [Fetch -> {"none", "refused", "gate", "watchdog", "result", "error"}]

\* The steps that the tiers share.
LEMMA SharedFrame ==
    ASSUME Typed, NEW f \in Fetch, SharedStep(f)
    PROVE  Frame(f) /\ Fields'
  BY DEF Typed, Fields, Frame, SharedStep, Refuse, Pass, GateFails, Deadline, Fire, Await,
         Return, Stop, Leave, machine, kills, MainPc, ThreadPc

\* The browser tier's steps.
LEMMA BrowserFrame ==
    ASSUME Typed, NEW f \in Fetch, BrowserTier(f)
    PROVE  Frame(f) /\ Fields'
  <1> USE DEF Typed, Fields, Frame, machine, kills, MainPc, ThreadPc
  <1>1. CASE BrowserEnter(f) \/ ReadAlarm(f)
    BY <1>1 DEF BrowserEnter, Enter, ReadAlarm
  <1>2. CASE KillChromium(f) \/ CannotKill(f) \/ GraceSuffices(f) \/ GraceExpires(f)
    BY <1>2 DEF KillChromium, CannotKill, GraceSuffices, GraceExpires, Leave, Stop
  <1>5. CASE CountAbandoned(f)
    <2>1. PICK b \in BOOLEAN : counted' = [counted EXCEPT ![f] = b]
      BY <1>5 DEF CountAbandoned, MustCount, Alive
    <2> QED
      BY <1>5, <2>1 DEF CountAbandoned, Leave, Stop
  <1>3. CASE Launch(f) \/ Navigate(f) \/ ReadDone(f) \/ RunRaises(f)
    BY <1>3 DEF Launch, Navigate, ReadDone, RunRaises, LeaveBlock
  <1>4. CASE BrowserRun(f)
    BY <1>4 DEF BrowserRun, RunClaim, ThreadClaim, Backstop, RunFinish
  <1> QED
    BY <1>1, <1>2, <1>3, <1>4, <1>5 DEF BrowserTier, BrowserMain

\* The Camoufox tier's steps.
LEMMA CamoufoxFrame ==
    ASSUME Typed, NEW f \in Fetch, CamoufoxTier(f)
    PROVE  Frame(f) /\ Fields'
  <1> USE DEF Typed, Fields, Frame, machine, kills, MainPc, ThreadPc
  <1>1. CASE NotReady(f) \/ CamoufoxEnter(f)
    BY <1>1 DEF NotReady, Stop, CamoufoxEnter, Enter
  <1>2. CASE KillFirefox(f) \/ SecondPass(f) \/ GiveUpKilling(f)
    BY <1>2 DEF KillFirefox, SecondPass, GiveUpKilling, Leave, Stop
  <1>5. CASE CountAtDeadline(f)
    <2>1. PICK b \in BOOLEAN : counted' = [counted EXCEPT ![f] = b]
      BY <1>5 DEF CountAtDeadline, StillRunning
    <2> QED
      BY <1>5, <2>1 DEF CountAtDeadline
  <1>3. CASE StartDriver(f) \/ StartFirefox(f) \/ Rendered(f) \/ DriveRaises(f)
    BY <1>3 DEF StartDriver, StartFirefox, Rendered, DriveRaises, EndDrive
  <1>4. CASE CamoufoxRun(f)
    BY <1>4 DEF CamoufoxRun, FinishDrive, ClaimDrive, ThreadClaim, SweepDrive
  <1> QED
    BY <1>1, <1>2, <1>3, <1>4, <1>5 DEF CamoufoxTier, CamoufoxMain

\* The undetected-chromedriver tier's steps.
LEMMA UcFrame ==
    ASSUME Typed, NEW f \in Fetch, UcTier(f)
    PROVE  Frame(f) /\ Fields'
  <1> USE DEF Typed, Fields, Frame, machine, kills, MainPc, ThreadPc
  <1>1. CASE UcEnter(f) \/ NoSnapshot(f)
    BY <1>1 DEF UcEnter, Enter, NoSnapshot, Stop
  <1>2. CASE KillLaunch(f) \/ SweepLaunch(f) \/ LaunchFailed(f)
    BY <1>2 DEF KillLaunch, SweepLaunch, LaunchFailed, Leave, Stop
  <1>3. CASE StartWorker(f) \/ WorkerFails(f)
    BY <1>3 DEF StartWorker, WorkerFails, Leave, Stop
  <1>4. CASE FetchFires(f) \/ KillFetch(f) \/ LateSweep(f) \/ FetchReturns(f)
    BY <1>4 DEF FetchFires, KillFetch, LateSweep, FetchReturns, Verdict, Leave, Stop
  <1>5. CASE UcRun(f) \/ QuitLate(f)
    BY <1>5 DEF UcRun, ClaimLaunch, SweepLate, ThreadClaim, QuitLate
  <1>6. CASE \/ \E kind \in {"helper", "browser"} : Construct(f, kind)
             \/ DriverBuilt(f) \/ ConstructRaises(f)
    BY <1>6 DEF Construct, DriverBuilt, ConstructRaises, Constructed
  <1>7. CASE Disconnect(f) \/ Reconnect(f) \/ PageRead(f) \/ WorkerRaises(f) \/ Quit(f)
    BY <1>7 DEF Disconnect, Reconnect, PageRead, WorkerRaises, Quit, Worker
  <1> QED
    BY <1>1, <1>2, <1>3, <1>4, <1>5, <1>6, <1>7 DEF UcTier, UcMain

-----------------------------------------------------------------------------
(* The invariant of one fetch                                               *)

\* The steps that the tiers share.
LEMMA SharedLocal ==
    ASSUME Typed, NEW f \in Fetch, Local(f), SharedStep(f)
    PROVE  Local(f)'
  <1> USE DEF Typed, Local, ThreadKnown, Claims, Filled, CountedLate, IsBrowser, IsCamoufox,
              IsUc, machine, kills, MainPc, ThreadPc, Tier
  <1>1. CASE Refuse(f) \/ Pass(f) \/ GateFails(f)
    BY <1>1 DEF Refuse, Pass, GateFails, Stop
  <1>2. CASE Deadline(f)
    BY <1>2 DEF Deadline
  <1>3. CASE Fire(f)
    BY <1>3 DEF Fire, Alive
  <1>4. CASE Await(f)
    BY <1>4 DEF Await, StopWatching, Alive
  <1>5. CASE Return(f)
    BY <1>5 DEF Return, Leave, Stop, Alive
  <1> QED
    BY <1>1, <1>2, <1>3, <1>4, <1>5 DEF SharedStep

\* The browser tier's steps.
LEMMA BrowserLocal ==
    ASSUME Typed, NEW f \in Fetch, Local(f), BrowserTier(f)
    PROVE  Local(f)'
  <1> USE DEF Typed, Local, ThreadKnown, Claims, Filled, CountedLate, IsBrowser, IsCamoufox,
              IsUc, machine, kills, MainPc, ThreadPc, Tier
  <1>1. CASE BrowserEnter(f) \/ ReadAlarm(f)
    BY <1>1 DEF BrowserEnter, Enter, ReadAlarm
  <1>2. CASE KillChromium(f) \/ CannotKill(f) \/ GraceSuffices(f) \/ GraceExpires(f)
    BY <1>2 DEF KillChromium, CannotKill, GraceSuffices, GraceExpires, Leave, Stop
  <1>3. CASE Launch(f) \/ Navigate(f) \/ ReadDone(f) \/ RunRaises(f)
    BY <1>3 DEF Launch, Navigate, ReadDone, RunRaises, LeaveBlock
  <1>4. CASE RunClaim(f)
    BY <1>4 DEF RunClaim, ThreadClaim, ThreadClaims
  <1>5. CASE Backstop(f) \/ RunFinish(f)
    BY <1>5 DEF Backstop, RunFinish
  <1>6. CASE CountAbandoned(f)
    BY <1>6 DEF CountAbandoned, Leave, Stop
  <1> QED
    BY <1>1, <1>2, <1>3, <1>4, <1>5, <1>6 DEF BrowserTier, BrowserMain, BrowserRun

\* The Camoufox tier's steps.
LEMMA CamoufoxLocal ==
    ASSUME Typed, NEW f \in Fetch, Local(f), CamoufoxTier(f)
    PROVE  Local(f)'
  <1> USE DEF Typed, Local, ThreadKnown, Claims, Filled, CountedLate, IsBrowser, IsCamoufox,
              IsUc, machine, kills, MainPc, ThreadPc, Tier
  <1>1. CASE NotReady(f) \/ CamoufoxEnter(f)
    BY <1>1 DEF NotReady, Stop, CamoufoxEnter, Enter
  <1>2. CASE KillFirefox(f) \/ SecondPass(f) \/ GiveUpKilling(f)
    BY <1>2 DEF KillFirefox, SecondPass, GiveUpKilling, Leave, Stop
  <1>3. CASE StartDriver(f) \/ StartFirefox(f) \/ Rendered(f) \/ DriveRaises(f)
    BY <1>3 DEF StartDriver, StartFirefox, Rendered, DriveRaises, EndDrive
  <1>4. CASE ClaimDrive(f)
    BY <1>4 DEF ClaimDrive, ThreadClaim, ThreadClaims
  <1>5. CASE FinishDrive(f) \/ SweepDrive(f)
    BY <1>5 DEF FinishDrive, SweepDrive
  <1>6. CASE CountAtDeadline(f)
    BY <1>6 DEF CountAtDeadline
  <1> QED
    BY <1>1, <1>2, <1>3, <1>4, <1>5, <1>6 DEF CamoufoxTier, CamoufoxMain, CamoufoxRun

\* The undetected-chromedriver tier's steps.
LEMMA UcLocal ==
    ASSUME Typed, NEW f \in Fetch, Local(f), UcTier(f)
    PROVE  Local(f)'
  <1> USE DEF Typed, Local, ThreadKnown, Claims, Filled, CountedLate, IsBrowser, IsCamoufox,
              IsUc, machine, kills, MainPc, ThreadPc, Tier
  <1>1. CASE UcEnter(f) \/ NoSnapshot(f)
    BY <1>1 DEF UcEnter, Enter, NoSnapshot, Stop
  <1>2. CASE KillLaunch(f) \/ SweepLaunch(f) \/ LaunchFailed(f)
    BY <1>2 DEF KillLaunch, SweepLaunch, LaunchFailed, Leave, Stop, Alive
  <1>3. CASE StartWorker(f) \/ WorkerFails(f)
    BY <1>3 DEF StartWorker, WorkerFails, Leave, Stop, Alive
  <1>4. CASE FetchFires(f)
    BY <1>4 DEF FetchFires, TeardownOnly, Alive
  <1>5. CASE KillFetch(f) \/ LateSweep(f) \/ FetchReturns(f)
    BY <1>5 DEF KillFetch, LateSweep, FetchReturns, Verdict, Leave, Stop, Alive
  <1>6. CASE ClaimLaunch(f)
    BY <1>6 DEF ClaimLaunch, ThreadClaim, ThreadClaims
  <1>7. CASE SweepLate(f) \/ QuitLate(f)
    BY <1>7 DEF SweepLate, QuitLate
  <1>8. CASE \/ \E kind \in {"helper", "browser"} : Construct(f, kind)
             \/ DriverBuilt(f) \/ ConstructRaises(f)
    BY <1>8 DEF Construct, DriverBuilt, ConstructRaises, Constructed
  <1>9. CASE Disconnect(f) \/ Reconnect(f)
    BY <1>9 DEF Disconnect, Reconnect, Worker
  <1>10. CASE PageRead(f) \/ WorkerRaises(f) \/ Quit(f)
    BY <1>10 DEF PageRead, WorkerRaises, Quit, Worker
  <1> QED
    BY <1>1, <1>2, <1>3, <1>4, <1>5, <1>6, <1>7, <1>8, <1>9, <1>10 DEF UcTier, UcMain, UcRun

\* Every step keeps the invariant of the fetch that takes it, and that of the
\* others, which it does not touch.
LEMMA LocalStep ==
    ASSUME Typed, \A g \in Fetch : Local(g), NEW f \in Fetch, Step(f)
    PROVE  Frame(f) /\ Fields' /\ \A g \in Fetch : Local(g)'
  <1>1. Frame(f) /\ Fields'
    BY SharedFrame, BrowserFrame, CamoufoxFrame, UcFrame DEF Step, TierStep
  <1>2. Local(f)'
    BY SharedLocal, BrowserLocal, CamoufoxLocal, UcLocal DEF Step, TierStep
  <1>3. ASSUME NEW g \in Fetch \ {f} PROVE Local(g)'
    BY <1>1, <1>3 DEF Frame, Local, ThreadKnown, Claims, Filled, CountedLate, IsBrowser,
                      IsCamoufox, IsUc
  <1> QED
    BY <1>1, <1>2, <1>3

-----------------------------------------------------------------------------
(* The gate                                                                 *)

\* What a step of f does to the gate: nothing, or f enters or leaves it.
GateEffect(f) ==
    \/ permits' = permits /\ (HoldsGate(f)' <=> HoldsGate(f))
    \/ permits > 0 /\ permits' = permits - 1 /\ ~HoldsGate(f) /\ HoldsGate(f)'
    \/ permits' = permits + 1 /\ HoldsGate(f) /\ ~HoldsGate(f)'

\* Every step takes or gives back a permit exactly when its fetch enters or
\* leaves the gate.
LEMMA GateSteps ==
    ASSUME Typed, NEW f \in Fetch, Local(f), Step(f)
    PROVE  GateEffect(f)
  <1> USE DEF Typed, GateEffect, HoldsGate, machine, kills
  <1>1. CASE SharedStep(f)
    BY <1>1 DEF SharedStep, Refuse, Pass, GateFails, Deadline, Fire, Await, Return, Stop, Leave
  <1>2. CASE BrowserTier(f)
    <2>1. CASE BrowserEnter(f) \/ ReadAlarm(f)
      BY <2>1 DEF BrowserEnter, Enter, ReadAlarm
    <2>2. CASE BrowserMain(f)
      BY <2>2 DEF BrowserMain, KillChromium, CannotKill, GraceSuffices, GraceExpires,
                  CountAbandoned, Leave, Stop
    <2>3. CASE Launch(f) \/ Navigate(f) \/ ReadDone(f) \/ RunRaises(f) \/ BrowserRun(f)
      BY <2>3 DEF Launch, Navigate, ReadDone, RunRaises, LeaveBlock, BrowserRun, RunClaim,
                  Backstop, RunFinish
    <2> QED
      BY <1>2, <2>1, <2>2, <2>3 DEF BrowserTier
  <1>3. CASE CamoufoxTier(f)
    <2>1. CASE NotReady(f) \/ CamoufoxEnter(f)
      BY <2>1 DEF NotReady, Stop, CamoufoxEnter, Enter
    <2>2. CASE CamoufoxMain(f)
      BY <2>2 DEF CamoufoxMain, CountAtDeadline, KillFirefox, SecondPass, GiveUpKilling,
                  Leave, Stop
    <2>3. CASE \/ StartDriver(f) \/ StartFirefox(f) \/ Rendered(f) \/ DriveRaises(f)
               \/ CamoufoxRun(f)
      BY <2>3 DEF StartDriver, StartFirefox, Rendered, DriveRaises, EndDrive, CamoufoxRun,
                  FinishDrive, ClaimDrive, SweepDrive
    <2> QED
      BY <1>3, <2>1, <2>2, <2>3 DEF CamoufoxTier
  <1>4. CASE UcTier(f)
    <2>1. CASE UcEnter(f) \/ NoSnapshot(f)
      BY <2>1 DEF UcEnter, Enter, NoSnapshot, Stop
    <2>2. CASE KillLaunch(f) \/ SweepLaunch(f) \/ LaunchFailed(f) \/ StartWorker(f)
               \/ WorkerFails(f)
      BY <2>2 DEF KillLaunch, SweepLaunch, LaunchFailed, StartWorker, WorkerFails, Leave, Stop
    <2>3. CASE FetchFires(f) \/ KillFetch(f) \/ LateSweep(f) \/ FetchReturns(f)
      BY <2>3 DEF FetchFires, KillFetch, LateSweep, FetchReturns, Leave, Stop
    <2>4. CASE UcRun(f) \/ QuitLate(f)
      BY <2>4 DEF UcRun, ClaimLaunch, SweepLate, QuitLate
    <2>5. CASE \/ \E kind \in {"helper", "browser"} : Construct(f, kind)
               \/ DriverBuilt(f) \/ ConstructRaises(f)
      BY <2>5 DEF Construct, DriverBuilt, ConstructRaises, Constructed
    <2>6. CASE Disconnect(f) \/ Reconnect(f) \/ PageRead(f) \/ WorkerRaises(f) \/ Quit(f)
      BY <2>6 DEF Disconnect, Reconnect, PageRead, WorkerRaises, Quit, Worker
    <2> QED
      BY <1>4, <2>1, <2>2, <2>3, <2>4, <2>5, <2>6 DEF UcTier, UcMain
  <1> QED
    BY <1>1, <1>2, <1>3, <1>4 DEF Step, TierStep

\* The permits and the fetches behind the gate always add up to its capacity.
LEMMA PermitsStep ==
    ASSUME Typed, PermitsExact, NEW f \in Fetch, Frame(f), GateEffect(f)
    PROVE  permits' \in Nat /\ PermitsExact'
  <1>1. IsFiniteSet(Holders) /\ Cardinality(Holders) \in Nat
    BY FetchAssumption, FS_Subset, FS_CardinalityType DEF Holders
  <1>2. permits \in Nat /\ capacity \in Nat /\ capacity' = capacity
    BY DEF Typed, Frame
  <1>3. \A g \in Fetch \ {f} : HoldsGate(g)' <=> HoldsGate(g)
    BY DEF Frame, HoldsGate
  <1>4. CASE permits' = permits /\ (HoldsGate(f)' <=> HoldsGate(f))
    <2>1. Holders' = Holders
      BY <1>3, <1>4 DEF Holders
    <2> QED
      BY <1>2, <1>4, <2>1 DEF PermitsExact
  <1>5. CASE permits > 0 /\ permits' = permits - 1 /\ ~HoldsGate(f) /\ HoldsGate(f)'
    <2>1. Holders' = Holders \cup {f} /\ f \notin Holders
      BY <1>3, <1>5 DEF Holders
    <2>2. Cardinality(Holders \cup {f}) = Cardinality(Holders) + 1
      BY <1>1, <2>1, FS_AddElement
    <2> QED
      BY <1>1, <1>2, <1>5, <2>1, <2>2 DEF PermitsExact
  <1>6. CASE permits' = permits + 1 /\ HoldsGate(f) /\ ~HoldsGate(f)'
    <2>1. Holders' = Holders \ {f} /\ f \in Holders
      BY <1>3, <1>6 DEF Holders
    <2>2. Cardinality(Holders \ {f}) = Cardinality(Holders) - 1
      BY <1>1, <2>1, FS_RemoveElement
    <2> QED
      BY <1>1, <1>2, <1>6, <2>1, <2>2 DEF PermitsExact
  <1> QED
    BY <1>4, <1>5, <1>6 DEF GateEffect

\* A gate of one permit has one holder.
LEMMA SoleHolder ==
    ASSUME Typed, PermitsExact, SingleFlight, NEW f \in Fetch, NEW g \in Fetch,
           HoldsGate(f), HoldsGate(g)
    PROVE  f = g
  <1>1. IsFiniteSet(Holders) /\ Cardinality(Holders) \in Nat
    BY FetchAssumption, FS_Subset, FS_CardinalityType DEF Holders
  <1>2. Cardinality(Holders) <= 1
    BY <1>1 DEF Typed, PermitsExact, SingleFlight
  <1>3. f \in Holders /\ g \in Holders
    BY DEF Holders
  <1>4. /\ Cardinality(Holders \ {f}) = Cardinality(Holders) - 1
        /\ IsFiniteSet(Holders \ {f})
    BY <1>1, <1>3, FS_RemoveElement
  <1>5. Cardinality(Holders \ {f}) \in Nat
    BY <1>4, FS_CardinalityType
  <1>6. Cardinality(Holders \ {f}) = 0
    BY <1>1, <1>2, <1>4, <1>5
  <1>7. Holders \ {f} = {}
    BY <1>4, <1>6, FS_EmptySet
  <1> QED
    BY <1>3, <1>7

-----------------------------------------------------------------------------
(* The processes                                                            *)

OwnIds(f) == {<<f, "helper">>, <<f, "browser">>}

\* What a step of f does to the processes: it may start its own, and it kills
\* its own, those it has frozen and, as the only holder of the gate, any. What
\* it freezes is its own too, or was frozen by the only holder of the gate.
ProcEffect(f) ==
    /\ procs' \subseteq procs \cup OwnIds(f)
    /\ procs' \subseteq procs \/ (run[f] # "off" /\ procs \subseteq procs')
    /\ \A p \in procs \ procs' :
         p \in OwnIds(f) \/ p \in frozen[f] \/ (HoldsGate(f) /\ SingleFlight)
    /\ main'[f] = main[f] /\ run'[f] = run[f] => procs \subseteq procs'
    /\ baseline' \in [Fetch -> SUBSET Process]
    /\ frozen' \in [Fetch -> SUBSET Process]
    /\ \A g \in Fetch \ {f} :
         frozen'[g] \subseteq frozen[g] /\ frozen'[g] \cap procs' \subseteq procs
    /\ \A p \in frozen'[f] :
         p \in frozen[f] \/ p \in OwnIds(f) \/ (HoldsGate(f) /\ SingleFlight)

\* A browser is spawned with its own identity.
LEMMA SpawnEffect ==
    ASSUME Typed, NEW f \in Fetch, NEW ps, ps \subseteq OwnIds(f), Spawn(ps), run[f] # "off"
    PROVE  ProcEffect(f)
  BY DEF Typed, Spawn, ProcEffect, OwnIds, Process

\* A kill by marker, by frozen identity or by novelty, with what it freezes.
LEMMA KillEffect ==
    ASSUME Typed, NEW f \in Fetch, NEW ps, Kill(ps),
           \A p \in ps \cap procs :
             p \in OwnIds(f) \/ p \in frozen[f] \/ (HoldsGate(f) /\ SingleFlight),
           ~(main'[f] = main[f] /\ run'[f] = run[f]),
           baseline' \in [Fetch -> SUBSET Process],
           NEW qs \in SUBSET procs, frozen' = frozen \/ frozen' = [frozen EXCEPT ![f] = qs],
           \A p \in qs : p \in OwnIds(f) \/ (HoldsGate(f) /\ SingleFlight)
    PROVE  ProcEffect(f)
  BY DEF Typed, Kill, ProcEffect

\* The steps that neither start, kill nor freeze a process.
LEMMA QuietEffect ==
    ASSUME Typed, NEW f \in Fetch, procs' = procs, frozen' = frozen,
           baseline' \in [Fetch -> SUBSET Process]
    PROVE  ProcEffect(f)
  BY DEF Typed, ProcEffect

\* The processes a sweep names are alive, and those a novelty sweep names are
\* only named behind a gate of one permit.
LEMMA Targets ==
    ASSUME Typed, NEW f \in Fetch
    PROVE  /\ Own(f) \subseteq procs /\ Own(f) \subseteq OwnIds(f)
           /\ Marked(f) \subseteq procs /\ Marked(f) \subseteq OwnIds(f)
           /\ Driver(f) \subseteq procs /\ Driver(f) \subseteq OwnIds(f)
           /\ Novel(f) \subseteq procs /\ (SingleFlight \/ Novel(f) = {})
  BY DEF Typed, Own, Marked, Driver, Novel, OwnIds

\* The steps that the tiers share touch no process.
LEMMA SharedProcs ==
    ASSUME Typed, NEW f \in Fetch, SharedStep(f)
    PROVE  ProcEffect(f)
  <1>1. procs' = procs /\ frozen' = frozen /\ baseline' = baseline
    BY DEF SharedStep, Refuse, Pass, GateFails, Deadline, Fire, Await, Return, kills
  <1> QED
    BY <1>1, QuietEffect DEF Typed

\* The browser tier's steps.
LEMMA BrowserProcs ==
    ASSUME Typed, NEW f \in Fetch, BrowserTier(f)
    PROVE  ProcEffect(f)
  <1> USE Targets DEF machine, kills
  <1>1. CASE \/ BrowserEnter(f) \/ ReadAlarm(f) \/ CannotKill(f) \/ GraceSuffices(f)
             \/ CountAbandoned(f) \/ Navigate(f) \/ RunClaim(f) \/ RunFinish(f)
    BY <1>1, QuietEffect DEF BrowserEnter, ReadAlarm, CannotKill, GraceSuffices,
         CountAbandoned, Navigate, RunClaim, RunFinish, Typed
  <1>2. CASE Launch(f)
    BY <1>2, SpawnEffect DEF Launch, OwnIds
  <1>3. CASE ReadDone(f) \/ RunRaises(f)
    <2>1. Kill(Own(f)) /\ run'[f] # run[f] /\ frozen' = frozen /\ baseline' = baseline
      BY <1>3 DEF ReadDone, RunRaises, LeaveBlock, Typed
    <2> QED
      BY <2>1, KillEffect DEF Typed
  <1>4. CASE Backstop(f)
    <2>1. PICK ps : Kill(ps) /\ ps \subseteq Marked(f) \cup Driver(f)
      BY <1>4 DEF Backstop
    <2>2. run'[f] # run[f] /\ frozen' = frozen /\ baseline' = baseline
      BY <1>4 DEF Backstop, Typed
    <2> QED
      BY <2>1, <2>2, KillEffect DEF Typed
  <1>5. CASE KillChromium(f)
    <2>1. /\ Kill(Marked(f)) /\ main'[f] # main[f] /\ baseline' = baseline
          /\ frozen' = [frozen EXCEPT ![f] = Driver(f)]
      BY <1>5 DEF KillChromium, Typed
    <2> QED
      BY <2>1, KillEffect DEF Typed
  <1>6. CASE GraceExpires(f)
    <2>1. Kill(frozen[f]) /\ main'[f] # main[f] /\ frozen' = frozen /\ baseline' = baseline
      BY <1>6 DEF GraceExpires, Typed
    <2> QED
      BY <2>1, KillEffect DEF Typed
  <1> QED
    BY <1>1, <1>2, <1>3, <1>4, <1>5, <1>6 DEF BrowserTier, BrowserMain, BrowserRun

\* The Camoufox tier's steps.
LEMMA CamoufoxProcs ==
    ASSUME Typed, NEW f \in Fetch, CamoufoxTier(f)
    PROVE  ProcEffect(f)
  <1> USE Targets DEF machine, kills
  <1>1. CASE \/ NotReady(f) \/ CountAtDeadline(f) \/ GiveUpKilling(f)
             \/ FinishDrive(f) \/ ClaimDrive(f)
    BY <1>1, QuietEffect DEF NotReady, CountAtDeadline, GiveUpKilling, FinishDrive,
         ClaimDrive, Typed
  <1>2. CASE CamoufoxEnter(f)
    <2>1. procs' = procs /\ frozen' = frozen /\ baseline' \in [Fetch -> SUBSET Process]
      BY <1>2 DEF CamoufoxEnter, Typed
    <2> QED
      BY <2>1, QuietEffect
  <1>3. CASE StartDriver(f) \/ StartFirefox(f)
    BY <1>3, SpawnEffect DEF StartDriver, StartFirefox, OwnIds
  <1>4. CASE Rendered(f) \/ DriveRaises(f)
    <2>1. Kill(Own(f)) /\ run'[f] # run[f] /\ frozen' = frozen /\ baseline' = baseline
      BY <1>4 DEF Rendered, DriveRaises, EndDrive, Typed
    <2> QED
      BY <2>1, KillEffect DEF Typed
  <1>5. CASE SweepDrive(f)
    <2>1. PICK ps : Kill(ps) /\ ps \subseteq Marked(f) \cup Driver(f)
      BY <1>5 DEF SweepDrive
    <2>2. run'[f] # run[f] /\ frozen' = frozen /\ baseline' = baseline
      BY <1>5 DEF SweepDrive, Typed
    <2> QED
      BY <2>1, <2>2, KillEffect DEF Typed
  <1>6. CASE KillFirefox(f)
    <2>1. /\ Kill((Marked(f) \cup Novel(f)) \ Driver(f)) /\ main'[f] # main[f]
          /\ frozen' = [frozen EXCEPT ![f] = Driver(f)] /\ baseline' = baseline
          /\ HoldsGate(f)
      BY <1>6 DEF KillFirefox, Typed, HoldsGate
    <2> QED
      BY <2>1, KillEffect DEF Typed
  <1>7. CASE SecondPass(f)
    <2>1. /\ Kill(Marked(f) \cup Driver(f) \cup Novel(f) \cup frozen[f]) /\ HoldsGate(f)
          /\ main'[f] # main[f] /\ frozen' = frozen /\ baseline' = baseline
      BY <1>7 DEF SecondPass, Typed, HoldsGate, Leave, Stop
    <2> QED
      BY <2>1, KillEffect DEF Typed
  <1> QED
    BY <1>1, <1>2, <1>3, <1>4, <1>5, <1>6, <1>7 DEF CamoufoxTier, CamoufoxMain, CamoufoxRun

\* The undetected-chromedriver tier's steps.
LEMMA UcProcs ==
    ASSUME Typed, NEW f \in Fetch, UcTier(f)
    PROVE  ProcEffect(f)
  <1> USE Targets DEF machine, kills
  <1>1. CASE \/ NoSnapshot(f) \/ LaunchFailed(f) \/ FetchFires(f) \/ FetchReturns(f)
             \/ ClaimLaunch(f) \/ DriverBuilt(f) \/ ConstructRaises(f)
             \/ PageRead(f) \/ WorkerRaises(f)
    BY <1>1, QuietEffect DEF NoSnapshot, LaunchFailed, FetchFires, FetchReturns, ClaimLaunch,
         DriverBuilt, ConstructRaises, Constructed, PageRead, WorkerRaises, Typed
  <1>2. CASE UcEnter(f)
    <2>1. procs' = procs /\ frozen' = frozen /\ baseline' \in [Fetch -> SUBSET Process]
      BY <1>2 DEF UcEnter, Typed
    <2> QED
      BY <2>1, QuietEffect
  <1>3. CASE (\E kind \in {"helper", "browser"} : Construct(f, kind)) \/ Reconnect(f)
    BY <1>3, SpawnEffect DEF Construct, Reconnect, Worker, OwnIds
  <1>4. CASE Disconnect(f)
    <2>1. /\ Kill({<<f, "helper">>}) /\ run'[f] # run[f]
          /\ frozen' = frozen /\ baseline' = baseline
      BY <1>4 DEF Disconnect, Worker, Typed
    <2>2. {<<f, "helper">>} \subseteq OwnIds(f)
      BY DEF OwnIds
    <2> QED
      BY <2>1, <2>2, KillEffect DEF Typed
  <1>5. CASE QuitLate(f) \/ Quit(f)
    <2>1. Kill(Own(f)) /\ run'[f] # run[f] /\ frozen' = frozen /\ baseline' = baseline
      BY <1>5 DEF QuitLate, Quit, Worker, Typed
    <2> QED
      BY <2>1, KillEffect DEF Typed
  <1>6. CASE SweepLate(f)
    <2>1. /\ Kill(Marked(f) \cup frozen[f]) /\ run'[f] # run[f]
          /\ frozen' = frozen /\ baseline' = baseline
      BY <1>6 DEF SweepLate, LateTargets, Typed
    <2> QED
      BY <2>1, KillEffect DEF Typed
  <1>7. CASE KillLaunch(f) \/ LateSweep(f)
    <2>1. /\ Kill(Marked(f) \cup Novel(f)) /\ main'[f] # main[f] /\ HoldsGate(f)
          /\ frozen' = frozen /\ baseline' = baseline
      BY <1>7 DEF KillLaunch, LateSweep, Leave, Stop, HoldsGate, Typed
    <2> QED
      BY <2>1, KillEffect DEF Typed
  <1>8. CASE SweepLaunch(f)
    <2>1. /\ Kill(Marked(f) \cup Novel(f)) /\ main'[f] # main[f] /\ HoldsGate(f)
          /\ frozen' = [frozen EXCEPT ![f] = Marked(f) \cup Novel(f)] /\ baseline' = baseline
      BY <1>8 DEF SweepLaunch, Leave, Stop, HoldsGate, Typed
    <2>2. /\ Marked(f) \cup Novel(f) \in SUBSET procs
          /\ \A p \in Marked(f) \cup Novel(f) :
              p \in OwnIds(f) \/ (HoldsGate(f) /\ SingleFlight)
      BY <2>1
    <2> QED
      BY <2>1, <2>2, KillEffect DEF Typed
  <1>9. CASE StartWorker(f)
    <2>1. /\ Kill({}) /\ main'[f] # main[f] /\ HoldsGate(f)
          /\ frozen' = [frozen EXCEPT ![f] = Marked(f) \cup Novel(f)] /\ baseline' = baseline
      BY <1>9 DEF StartWorker, Kill, HoldsGate, Typed
    <2>2. /\ Marked(f) \cup Novel(f) \in SUBSET procs
          /\ \A p \in Marked(f) \cup Novel(f) :
              p \in OwnIds(f) \/ (HoldsGate(f) /\ SingleFlight)
      BY <2>1
    <2> QED
      BY <2>1, <2>2, KillEffect DEF Typed
  <1>10. CASE WorkerFails(f)
    <2>1. /\ Kill(Own(f) \cup Novel(f)) /\ main'[f] # main[f] /\ HoldsGate(f)
          /\ frozen' = [frozen EXCEPT ![f] = Marked(f) \cup Novel(f)] /\ baseline' = baseline
      BY <1>10 DEF WorkerFails, Leave, Stop, HoldsGate, Typed
    <2>2. /\ Marked(f) \cup Novel(f) \in SUBSET procs
          /\ \A p \in Marked(f) \cup Novel(f) :
              p \in OwnIds(f) \/ (HoldsGate(f) /\ SingleFlight)
      BY <2>1
    <2> QED
      BY <2>1, <2>2, KillEffect DEF Typed
  <1>11. CASE KillFetch(f)
    <2>1. /\ Kill(Own(f) \cup frozen[f]) /\ main'[f] # main[f]
          /\ frozen' = frozen /\ baseline' = baseline
      BY <1>11 DEF KillFetch, Leave, Stop, Typed
    <2> QED
      BY <2>1, KillEffect DEF Typed
  <1> QED
    BY <1>1, <1>2, <1>3, <1>4, <1>5, <1>6, <1>7, <1>8, <1>9, <1>10, <1>11
       DEF UcTier, UcMain, UcRun

\* A fetch that is over stays over, and a thread that was started stays so.
LEMMA StaysDone ==
    ASSUME Typed, NEW f \in Fetch, Local(f), Step(f)
    PROVE  (main[f] = "done" => main'[f] = "done") /\ (run[f] # "off" => run'[f] # "off")
  <1> USE DEF Typed, machine, kills
  <1>1. CASE SharedStep(f)
    BY <1>1 DEF SharedStep, Refuse, Pass, GateFails, Deadline, Fire, Await, Return, Leave, Stop
  <1>2. CASE BrowserTier(f)
    BY <1>2 DEF BrowserTier, BrowserMain, BrowserRun, BrowserEnter, Enter, ReadAlarm, Launch,
         Navigate, ReadDone, RunRaises, LeaveBlock, RunClaim, ThreadClaim, Backstop, RunFinish,
         KillChromium, CannotKill, GraceSuffices, GraceExpires, CountAbandoned
  <1>3. CASE CamoufoxTier(f)
    BY <1>3 DEF CamoufoxTier, CamoufoxMain, CamoufoxRun, NotReady, CamoufoxEnter, Enter,
         CountAtDeadline, KillFirefox, SecondPass, GiveUpKilling, FinishDrive, ClaimDrive,
         ThreadClaim, SweepDrive, StartDriver, StartFirefox, Rendered, DriveRaises, EndDrive
  <1>4. CASE UcTier(f)
    BY <1>4 DEF UcTier, UcMain, UcRun, UcEnter, Enter, NoSnapshot, KillLaunch, SweepLaunch,
         LaunchFailed, StartWorker, WorkerFails, FetchFires, KillFetch, LateSweep,
         FetchReturns, ClaimLaunch, ThreadClaim, SweepLate, QuitLate, Construct, DriverBuilt,
         ConstructRaises, Constructed, Disconnect, Reconnect, PageRead, WorkerRaises, Quit,
         Worker
  <1> QED
    BY <1>1, <1>2, <1>3, <1>4 DEF Step, TierStep

\* A thread that is past closing its browser has none left: the steps that the
\* tiers share.
LEMMA SharedGone ==
    ASSUME Typed, NEW f \in Fetch, Local(f), Gone(f), SharedStep(f)
    PROVE  Gone(f)'
  <1> USE DEF Typed, Local, Claims, Filled, Gone, Closed, IsUc, machine, kills
  <1>1. CASE Refuse(f) \/ Pass(f) \/ GateFails(f) \/ Deadline(f) \/ Fire(f) \/ Await(f)
    BY <1>1 DEF Refuse, Pass, GateFails, Deadline, Fire, Await, Stop, Alive
  <1>2. CASE Return(f)
    BY <1>2 DEF Return, Leave, Stop
  <1> QED
    BY <1>1, <1>2 DEF SharedStep

\* The browser tier's steps.
LEMMA BrowserGone ==
    ASSUME Typed, NEW f \in Fetch, Gone(f), BrowserTier(f)
    PROVE  Gone(f)'
  <1> USE DEF Typed, Gone, Closed, IsUc, IsBrowser, machine, kills
  <1>1. CASE BrowserEnter(f) \/ ReadAlarm(f) \/ Launch(f) \/ Navigate(f)
    BY <1>1 DEF BrowserEnter, Enter, ReadAlarm, Launch, Navigate
  <1>2. CASE BrowserMain(f)
    BY <1>2 DEF BrowserMain, KillChromium, CannotKill, GraceSuffices, GraceExpires,
         CountAbandoned, Kill
  <1>3. CASE ReadDone(f) \/ RunRaises(f)
    BY <1>3 DEF ReadDone, RunRaises, LeaveBlock, Kill, Own
  <1>4. CASE BrowserRun(f)
    BY <1>4 DEF BrowserRun, RunClaim, ThreadClaim, Backstop, RunFinish, Kill
  <1> QED
    BY <1>1, <1>2, <1>3, <1>4 DEF BrowserTier

\* The Camoufox tier's steps.
LEMMA CamoufoxGone ==
    ASSUME Typed, NEW f \in Fetch, Gone(f), CamoufoxTier(f)
    PROVE  Gone(f)'
  <1> USE DEF Typed, Gone, Closed, IsUc, IsCamoufox, machine, kills
  <1>1. CASE NotReady(f) \/ CamoufoxEnter(f) \/ StartDriver(f) \/ StartFirefox(f)
    BY <1>1 DEF NotReady, CamoufoxEnter, Enter, StartDriver, StartFirefox
  <1>2. CASE CamoufoxMain(f)
    BY <1>2 DEF CamoufoxMain, CountAtDeadline, KillFirefox, SecondPass, GiveUpKilling, Kill
  <1>3. CASE Rendered(f) \/ DriveRaises(f)
    BY <1>3 DEF Rendered, DriveRaises, EndDrive, Kill, Own
  <1>4. CASE CamoufoxRun(f)
    BY <1>4 DEF CamoufoxRun, FinishDrive, ClaimDrive, ThreadClaim, SweepDrive, Kill
  <1> QED
    BY <1>1, <1>2, <1>3, <1>4 DEF CamoufoxTier

\* The undetected-chromedriver tier's steps.
LEMMA UcGone ==
    ASSUME Typed, NEW f \in Fetch, Local(f), Gone(f), UcTier(f)
    PROVE  Gone(f)'
  <1> USE DEF Typed, Local, Claims, Filled, Gone, Closed, IsUc, machine, kills
  <1>1. CASE UcEnter(f) \/ NoSnapshot(f)
    BY <1>1 DEF UcEnter, Enter, NoSnapshot, Stop
  <1>2. CASE KillLaunch(f) \/ SweepLaunch(f)
    BY <1>2 DEF KillLaunch, SweepLaunch, Leave, Stop, Kill
  <1>3. CASE LaunchFailed(f) \/ StartWorker(f) \/ WorkerFails(f)
    BY <1>3 DEF LaunchFailed, StartWorker, WorkerFails, Leave, Stop, Kill
  <1>4. CASE FetchFires(f) \/ KillFetch(f) \/ LateSweep(f) \/ FetchReturns(f)
    BY <1>4 DEF FetchFires, KillFetch, LateSweep, FetchReturns, Leave, Stop, Kill
  <1>5. CASE ClaimLaunch(f)
    BY <1>5 DEF ClaimLaunch, ThreadClaim, ThreadClaims
  <1>6. CASE SweepLate(f)
    BY <1>6 DEF SweepLate, LateTargets, Marked, Kill
  <1>7. CASE QuitLate(f) \/ DriverBuilt(f) \/ ConstructRaises(f)
    BY <1>7 DEF QuitLate, DriverBuilt, ConstructRaises, Constructed
  <1>8. CASE \E kind \in {"helper", "browser"} : Construct(f, kind)
    BY <1>8 DEF Construct
  <1>9. CASE Disconnect(f) \/ Reconnect(f) \/ PageRead(f) \/ WorkerRaises(f)
    BY <1>9 DEF Disconnect, Reconnect, PageRead, WorkerRaises, Worker
  <1>10. CASE Quit(f)
    BY <1>10 DEF Quit, Worker, Own, Kill
  <1> QED
    BY <1>1, <1>2, <1>3, <1>4, <1>5, <1>6, <1>7, <1>8, <1>9, <1>10 DEF UcTier, UcMain, UcRun

\* What is alive, what is frozen and what is gone, after any step.
LEMMA ProcsStep ==
    ASSUME Typed, PermitsExact, ProcsKnown, FrozenSafe, \A g \in Fetch : Local(g) /\ Gone(g),
           NEW f \in Fetch, Step(f), Frame(f)
    PROVE  /\ ProcEffect(f) /\ procs' \subseteq Process
           /\ ProcsKnown' /\ FrozenSafe' /\ \A g \in Fetch : Gone(g)'
  <1>1. ProcEffect(f)
    BY SharedProcs, BrowserProcs, CamoufoxProcs, UcProcs DEF Step, TierStep
  <1>2. procs' \subseteq Process
    BY <1>1 DEF ProcEffect, OwnIds, Process, Typed
  <1>3. \A g \in Fetch : (main[g] = "done" => main'[g] = "done")
                      /\ (run[g] # "off" => run'[g] # "off")
    BY StaysDone DEF Frame
  <1>4. ProcsKnown'
    <2> SUFFICES ASSUME NEW p \in procs' PROVE run'[p[1]] # "off"
      BY DEF ProcsKnown
    <2>1. p[1] \in Fetch
      BY <1>2 DEF Process
    <2>2. CASE p \in procs
      BY <1>3, <2>1, <2>2 DEF ProcsKnown
    <2>3. CASE p \notin procs
      <3>1. run[f] # "off" /\ p[1] = f
        BY <1>1, <2>3 DEF ProcEffect, OwnIds
      <3> QED
        BY <1>3, <3>1
    <2> QED
      BY <2>2, <2>3
  <1>5. FrozenSafe'
    <2> SUFFICES ASSUME NEW g \in Fetch, NEW p \in frozen'[g], p \in procs', p[1] # g
                 PROVE  main'[p[1]] = "done"
      BY DEF FrozenSafe
    <2>1. p[1] \in Fetch
      BY <1>2 DEF Process
    <2>2. p \in procs
      BY <1>1 DEF ProcEffect, OwnIds
    <2>3. CASE p \in frozen[g]
      BY <1>3, <2>1, <2>2, <2>3 DEF FrozenSafe
    <2>4. CASE p \notin frozen[g]
      <3>1. g = f /\ HoldsGate(f) /\ SingleFlight
        BY <1>1, <2>4 DEF ProcEffect, OwnIds
      <3>2. ~HoldsGate(p[1])
        BY <2>1, <3>1, SoleHolder
      <3>3. run[p[1]] # "off"
        BY <2>2 DEF ProcsKnown
      <3>4. main[p[1]] = "done"
        BY <2>1, <3>2, <3>3 DEF HoldsGate, Local, ThreadKnown
      <3> QED
        BY <1>3, <2>1, <3>4
    <2> QED
      BY <2>3, <2>4
  <1>6. ASSUME NEW g \in Fetch PROVE Gone(g)'
    <2>1. CASE g = f
      BY <2>1, SharedGone, BrowserGone, CamoufoxGone, UcGone DEF Step, TierStep
    <2>2. CASE g # f
      <3>1. Closed(g)' <=> Closed(g)
        BY <2>2 DEF Frame, Closed, IsUc
      <3>2. <<g, "browser">> \in procs' => <<g, "browser">> \in procs
        BY <1>1, <2>2 DEF ProcEffect, OwnIds
      <3> QED
        BY <3>1, <3>2 DEF Gone
    <2> QED
      BY <2>1, <2>2
  <1> QED
    BY <1>1, <1>2, <1>4, <1>5, <1>6

-----------------------------------------------------------------------------
(* The ceilings                                                             *)

Counted == {"browser", "camoufox"}

\* What a step of f does to the ceiling of its tier: nothing, or the thread of
\* f is counted, or a counted thread ends.
CountEffect(f) ==
    \/ abandoned' = abandoned /\ (tier[f] \in Counted => (Abandoned(f)' <=> Abandoned(f)))
    \/ /\ tier[f] \in Counted /\ ~Abandoned(f) /\ Abandoned(f)' /\ InFetch(f)
       /\ abandoned' = [abandoned EXCEPT ![tier[f]] = @ + 1]
    \/ /\ tier[f] \in Counted /\ Abandoned(f) /\ ~Abandoned(f)'
       /\ abandoned' = [abandoned EXCEPT ![tier[f]] = @ - 1]

\* A fetch that is in flight after a step of it was so before, or passes the
\* ceiling.
FlightEffect(f) == Pass(f) \/ (InFetch(f)' => InFetch(f))

\* A step that leaves the count, the flag and the run of the thread alone.
LEMMA CountQuiet ==
    ASSUME Typed, NEW f \in Fetch, abandoned' = abandoned, tier' = tier,
           counted'[f] = counted[f], Alive(f)' <=> Alive(f),
           StillRunning(f)' <=> StillRunning(f)
    PROVE  CountEffect(f)
  <1>1. Abandoned(f)' <=> Abandoned(f)
    BY DEF Abandoned, IsCamoufox
  <1> QED
    BY <1>1 DEF CountEffect

\* The steps that the tiers share.
LEMMA SharedCount ==
    ASSUME Typed, NEW f \in Fetch, SharedStep(f)
    PROVE  CountEffect(f) /\ FlightEffect(f)
  <1>1. abandoned' = abandoned /\ tier' = tier /\ counted' = counted /\ run' = run
    BY DEF SharedStep, Refuse, Pass, GateFails, Deadline, Fire, Await, Return, machine
  <1>2. CountEffect(f)
    BY <1>1, CountQuiet DEF Alive, StillRunning
  <1>3. FlightEffect(f)
    BY DEF SharedStep, Refuse, GateFails, Deadline, Fire, Await, Return, Leave, Stop,
           FlightEffect, InFetch, Typed
  <1> QED
    BY <1>2, <1>3

\* The browser tier counts a thread that outlives its grace and takes it back
\* when the thread ends.
LEMMA BrowserCount ==
    ASSUME Typed, NEW f \in Fetch, Local(f), BrowserTier(f)
    PROVE  CountEffect(f) /\ FlightEffect(f)
  <1> USE DEF Typed, machine, kills
  <1>1. FlightEffect(f)
    <2> USE DEF FlightEffect, InFetch
    <2>1. CASE BrowserEnter(f) \/ ReadAlarm(f) \/ BrowserMain(f)
      BY <2>1 DEF BrowserEnter, Enter, ReadAlarm, BrowserMain, KillChromium, CannotKill,
           GraceSuffices, GraceExpires, CountAbandoned, Leave, Stop
    <2>2. CASE Launch(f) \/ Navigate(f) \/ ReadDone(f) \/ RunRaises(f) \/ BrowserRun(f)
      BY <2>2 DEF Launch, Navigate, ReadDone, RunRaises, LeaveBlock, BrowserRun, RunClaim,
           Backstop, RunFinish
    <2> QED
      BY <2>1, <2>2 DEF BrowserTier
  <1>2. CASE \/ BrowserEnter(f) \/ ReadAlarm(f) \/ Launch(f) \/ Navigate(f) \/ ReadDone(f)
             \/ RunRaises(f) \/ RunClaim(f) \/ Backstop(f)
    <2>1. abandoned' = abandoned /\ tier' = tier /\ counted' = counted /\ IsBrowser(f)
      BY <1>2 DEF BrowserEnter, Enter, ReadAlarm, Launch, Navigate, ReadDone, RunRaises,
           LeaveBlock, RunClaim, Backstop
    <2>2. Alive(f)' <=> Alive(f)
      BY <1>2 DEF BrowserEnter, Enter, ReadAlarm, Launch, Navigate, ReadDone, RunRaises,
           LeaveBlock, RunClaim, ThreadClaim, Backstop, Alive, Local, ThreadKnown
    <2>3. Abandoned(f)' <=> Abandoned(f)
      BY <2>1, <2>2 DEF Abandoned, IsCamoufox, IsBrowser
    <2> QED
      BY <1>1, <2>1, <2>3 DEF CountEffect
  <1>3. CASE KillChromium(f) \/ CannotKill(f) \/ GraceSuffices(f) \/ GraceExpires(f)
    <2>1. abandoned' = abandoned /\ tier' = tier /\ counted' = counted /\ run' = run
      BY <1>3 DEF KillChromium, CannotKill, GraceSuffices, GraceExpires
    <2> QED
      BY <1>1, <2>1, CountQuiet DEF Alive, StillRunning
  <1>4. CASE RunFinish(f)
    <2>1. /\ tier[f] = "browser" /\ tier' = tier /\ counted' = counted
          /\ Alive(f) /\ ~Alive(f)'
          /\ abandoned' = [abandoned EXCEPT !["browser"] = @ - GivenBack(f)]
      BY <1>4 DEF RunFinish, IsBrowser, Alive
    <2>2. ~Abandoned(f)' /\ (Abandoned(f) <=> counted[f])
      BY <2>1 DEF Abandoned, IsCamoufox
    <2>3. CASE counted[f]
      BY <1>1, <2>1, <2>2, <2>3 DEF CountEffect, Counted, GivenBack
    <2>4. CASE ~counted[f]
      <3>1. abandoned' = abandoned
        BY <2>1, <2>4 DEF GivenBack
      <3> QED
        BY <1>1, <2>2, <2>4, <3>1 DEF CountEffect
    <2> QED
      BY <2>3, <2>4
  <1>5. CASE CountAbandoned(f)
    <2>1. /\ tier[f] = "browser" /\ tier' = tier /\ main[f] = "count" /\ run' = run
          /\ counted' = [counted EXCEPT ![f] = MustCount(f)]
          /\ abandoned' = [abandoned EXCEPT !["browser"] = @ + (IF MustCount(f) THEN 1 ELSE 0)]
      BY <1>5 DEF CountAbandoned, IsBrowser
    <2>2. ~counted[f] /\ InFetch(f)
      BY <2>1 DEF Local, CountedLate, IsCamoufox, InFetch
    <2>3. ~Abandoned(f) /\ (Abandoned(f)' <=> MustCount(f))
      <3>1. counted'[f] = MustCount(f)
        BY <2>1
      <3>2. Alive(f)' <=> Alive(f)
        BY <2>1 DEF Alive
      <3> QED
        BY <2>1, <2>2, <3>1, <3>2 DEF Abandoned, IsCamoufox, MustCount
    <2>4. CASE MustCount(f)
      BY <1>1, <2>1, <2>2, <2>3, <2>4 DEF CountEffect, Counted
    <2>5. CASE ~MustCount(f)
      <3>1. abandoned' = abandoned
        BY <2>1, <2>5
      <3> QED
        BY <1>1, <2>3, <2>5, <3>1 DEF CountEffect
    <2> QED
      BY <2>4, <2>5
  <1> QED
    BY <1>2, <1>3, <1>4, <1>5 DEF BrowserTier, BrowserMain, BrowserRun

\* Camoufox counts a thread at the deadline and takes it back when the thread
\* has ended its work.
LEMMA CamoufoxCount ==
    ASSUME Typed, NEW f \in Fetch, Local(f), CamoufoxTier(f)
    PROVE  CountEffect(f) /\ FlightEffect(f)
  <1> USE DEF Typed, machine, kills
  <1>1. FlightEffect(f)
    <2> USE DEF FlightEffect, InFetch
    <2>1. CASE NotReady(f) \/ CamoufoxEnter(f) \/ CamoufoxMain(f)
      BY <2>1 DEF NotReady, CamoufoxEnter, Enter, CamoufoxMain, CountAtDeadline, KillFirefox,
           SecondPass, GiveUpKilling, Leave, Stop
    <2>2. CASE \/ StartDriver(f) \/ StartFirefox(f) \/ Rendered(f) \/ DriveRaises(f)
               \/ CamoufoxRun(f)
      BY <2>2 DEF StartDriver, StartFirefox, Rendered, DriveRaises, EndDrive, CamoufoxRun,
           FinishDrive, ClaimDrive, SweepDrive
    <2> QED
      BY <2>1, <2>2 DEF CamoufoxTier
  <1>2. CASE \/ CamoufoxEnter(f) \/ StartDriver(f) \/ StartFirefox(f) \/ Rendered(f)
             \/ DriveRaises(f) \/ ClaimDrive(f) \/ SweepDrive(f)
    <2>1. abandoned' = abandoned /\ tier' = tier /\ counted' = counted /\ IsCamoufox(f)
      BY <1>2 DEF CamoufoxEnter, Enter, StartDriver, StartFirefox, Rendered, DriveRaises,
           EndDrive, ClaimDrive, SweepDrive
    <2>2. StillRunning(f)' <=> StillRunning(f)
      BY <1>2 DEF CamoufoxEnter, Enter, StartDriver, StartFirefox, Rendered, DriveRaises,
           EndDrive, ClaimDrive, ThreadClaim, SweepDrive, StillRunning, Local, ThreadKnown
    <2>3. Abandoned(f)' <=> Abandoned(f)
      BY <2>1, <2>2 DEF Abandoned, IsCamoufox
    <2> QED
      BY <1>1, <2>1, <2>3 DEF CountEffect
  <1>3. CASE NotReady(f) \/ KillFirefox(f) \/ SecondPass(f) \/ GiveUpKilling(f)
    <2>1. abandoned' = abandoned /\ tier' = tier /\ counted' = counted /\ run' = run
      BY <1>3 DEF NotReady, KillFirefox, SecondPass, GiveUpKilling
    <2> QED
      BY <1>1, <2>1, CountQuiet DEF Alive, StillRunning
  <1>4. CASE FinishDrive(f)
    <2>1. /\ tier[f] = "camoufox" /\ tier' = tier /\ counted' = counted
          /\ StillRunning(f) /\ ~StillRunning(f)'
          /\ abandoned' = [abandoned EXCEPT !["camoufox"] = @ - Returned(f)]
      BY <1>4 DEF FinishDrive, IsCamoufox, StillRunning
    <2>2. ~Abandoned(f)' /\ (Abandoned(f) <=> counted[f])
      BY <2>1 DEF Abandoned, IsCamoufox
    <2>3. CASE counted[f]
      BY <1>1, <2>1, <2>2, <2>3 DEF CountEffect, Counted, Returned
    <2>4. CASE ~counted[f]
      <3>1. abandoned' = abandoned
        BY <2>1, <2>4 DEF Returned
      <3> QED
        BY <1>1, <2>2, <2>4, <3>1 DEF CountEffect
    <2> QED
      BY <2>3, <2>4
  <1>5. CASE CountAtDeadline(f)
    <2>1. /\ tier[f] = "camoufox" /\ tier' = tier /\ main[f] = "count" /\ run' = run
          /\ counted' = [counted EXCEPT ![f] = StillRunning(f)]
          /\ abandoned' = [abandoned EXCEPT !["camoufox"] =
                             @ + (IF StillRunning(f) THEN 1 ELSE 0)]
      BY <1>5 DEF CountAtDeadline, IsCamoufox
    <2>2. ~counted[f] /\ InFetch(f)
      BY <2>1 DEF Local, CountedLate, IsCamoufox, InFetch
    <2>3. ~Abandoned(f) /\ (Abandoned(f)' <=> StillRunning(f))
      <3>1. counted'[f] = StillRunning(f)
        BY <2>1
      <3>2. StillRunning(f)' <=> StillRunning(f)
        BY <2>1 DEF StillRunning
      <3> QED
        BY <2>1, <2>2, <3>1, <3>2 DEF Abandoned, IsCamoufox
    <2>4. CASE StillRunning(f)
      BY <1>1, <2>1, <2>2, <2>3, <2>4 DEF CountEffect, Counted
    <2>5. CASE ~StillRunning(f)
      <3>1. abandoned' = abandoned
        BY <2>1, <2>5
      <3> QED
        BY <1>1, <2>3, <2>5, <3>1 DEF CountEffect
    <2> QED
      BY <2>4, <2>5
  <1> QED
    BY <1>2, <1>3, <1>4, <1>5 DEF CamoufoxTier, CamoufoxMain, CamoufoxRun

\* uc has no ceiling.
LEMMA UcCount ==
    ASSUME Typed, NEW f \in Fetch, UcTier(f)
    PROVE  CountEffect(f) /\ FlightEffect(f)
  <1>1. abandoned' = abandoned /\ tier[f] = "uc"
    BY DEF UcTier, UcMain, UcRun, UcEnter, NoSnapshot, KillLaunch, SweepLaunch,
         LaunchFailed, StartWorker, WorkerFails, FetchFires, KillFetch, LateSweep,
         FetchReturns, ClaimLaunch, SweepLate, QuitLate, Construct, DriverBuilt,
         ConstructRaises, Constructed, Disconnect, Reconnect, PageRead, WorkerRaises, Quit,
         Worker, IsUc
  <1>2. FlightEffect(f)
    BY DEF FlightEffect, InFetch, Typed, UcTier, UcMain, UcRun, UcEnter, Enter, NoSnapshot,
         KillLaunch, SweepLaunch, LaunchFailed, StartWorker, WorkerFails, FetchFires,
         KillFetch, LateSweep, FetchReturns, ClaimLaunch, SweepLate, QuitLate, Construct,
         DriverBuilt, ConstructRaises, Constructed, Disconnect, Reconnect, PageRead,
         WorkerRaises, Quit, Worker
  <1> QED
    BY <1>1, <1>2 DEF CountEffect, Counted

\* The fetches a ceiling counts, and those it counts or has let through.
Left(t) == {g \in Fetch : tier[g] = t /\ Abandoned(g)}
InUse(t) == {g \in Fetch : tier[g] = t /\ (Abandoned(g) \/ InFetch(g))}

\* The thread of another fetch stays counted or not.
LEMMA OthersCount ==
    ASSUME NEW f \in Fetch, Frame(f), NEW g \in Fetch \ {f}
    PROVE  /\ tier'[g] = tier[g] /\ (Abandoned(g)' <=> Abandoned(g))
           /\ (InFetch(g)' <=> InFetch(g))
  BY DEF Frame, Abandoned, IsCamoufox, StillRunning, Alive, InFetch

\* Each ceiling stays equal to the number of its threads left behind.
LEMMA CountStep ==
    ASSUME Typed, CountExact, NEW f \in Fetch, Frame(f), CountEffect(f)
    PROVE  abandoned' \in [Counted -> Int] /\ CountExact'
  <1> USE DEF Counted
  <1>1. abandoned' \in [Counted -> Int]
    BY DEF Typed, CountEffect
  <1>2. tier' = tier
    BY DEF Frame
  <1>3. ASSUME NEW t \in Counted PROVE abandoned'[t] = Cardinality(Left(t)')
    <2>1. IsFiniteSet(Left(t)) /\ Cardinality(Left(t)) \in Nat
      BY FetchAssumption, FS_Subset, FS_CardinalityType DEF Left
    <2>2. abandoned[t] = Cardinality(Left(t))
      BY DEF CountExact, Left
    <2>3. \A g \in Fetch \ {f} : Abandoned(g)' <=> Abandoned(g)
      BY OthersCount
    <2>4. CASE tier[f] # t
      <3>1. Left(t)' = Left(t)
        BY <1>2, <2>3, <2>4 DEF Left
      <3>2. abandoned'[t] = abandoned[t]
        BY <2>4 DEF CountEffect, Typed
      <3> QED
        BY <2>2, <3>1, <3>2
    <2>5. CASE tier[f] = t /\ abandoned' = abandoned /\ (Abandoned(f)' <=> Abandoned(f))
      <3>1. Left(t)' = Left(t)
        BY <1>2, <2>3, <2>5 DEF Left
      <3> QED
        BY <2>2, <2>5, <3>1
    <2>6. CASE /\ tier[f] = t /\ ~Abandoned(f) /\ Abandoned(f)'
               /\ abandoned' = [abandoned EXCEPT ![tier[f]] = @ + 1]
      <3>1. Left(t)' = Left(t) \cup {f} /\ f \notin Left(t)
        BY <1>2, <2>3, <2>6 DEF Left
      <3>2. Cardinality(Left(t)') = Cardinality(Left(t)) + 1
        BY <2>1, <3>1, FS_AddElement
      <3>3. abandoned'[t] = abandoned[t] + 1
        BY <2>6 DEF Typed
      <3> QED
        BY <2>2, <3>2, <3>3
    <2>7. CASE /\ tier[f] = t /\ Abandoned(f) /\ ~Abandoned(f)'
               /\ abandoned' = [abandoned EXCEPT ![tier[f]] = @ - 1]
      <3>1. Left(t)' = Left(t) \ {f} /\ f \in Left(t)
        BY <1>2, <2>3, <2>7 DEF Left
      <3>2. Cardinality(Left(t)') = Cardinality(Left(t)) - 1
        BY <2>1, <3>1, FS_RemoveElement
      <3>3. abandoned'[t] = abandoned[t] - 1
        BY <2>7 DEF Typed
      <3> QED
        BY <2>2, <3>2, <3>3
    <2> QED
      BY <2>4, <2>5, <2>6, <2>7 DEF CountEffect
  <1> QED
    BY <1>1, <1>3 DEF CountExact, Left

\* A calling thread has one fetch in flight.
LEMMA OnePerCallerStep ==
    ASSUME Typed, OnePerCaller, NEW f \in Fetch, Frame(f), FlightEffect(f)
    PROVE  OnePerCaller'
  <1> SUFFICES ASSUME NEW g \in Fetch, NEW h \in Fetch, InFetch(g)', InFetch(h)',
                      CallerOf[g] = CallerOf[h], g # h
               PROVE  FALSE
    BY DEF OnePerCaller
  <1>1. \A k \in Fetch \ {f} : InFetch(k)' <=> InFetch(k)
    BY OthersCount
  <1>2. CASE Pass(f)
    <2>1. \A k \in Fetch : CallerOf[k] = CallerOf[f] => ~InFetch(k)
      BY <1>2 DEF Pass, Free
    <2>2. CASE g # f /\ h # f
      BY <1>1, <2>2 DEF OnePerCaller
    <2>3. CASE g = f \/ h = f
      BY <1>1, <2>1, <2>3
    <2> QED
      BY <2>2, <2>3
  <1>3. CASE InFetch(f)' => InFetch(f)
    BY <1>1, <1>3 DEF OnePerCaller
  <1> QED
    BY <1>2, <1>3 DEF FlightEffect

InFlight == {g \in Fetch : InFetch(g)}

\* Fetches of different calling threads are no more than the calling threads.
LEMMA FlightBound ==
    ASSUME NEW S \in SUBSET Fetch, \A f, g \in S : CallerOf[f] = CallerOf[g] => f = g
    PROVE  /\ IsFiniteSet(S) /\ Cardinality(S) \in Nat
           /\ Cardinality(Caller) \in Nat /\ Cardinality(S) <= Cardinality(Caller)
  <1>1. [g \in S |-> CallerOf[g]] \in Injection(S, Caller)
    BY FetchAssumption DEF Injection, IsInjective
  <1>2. IsFiniteSet(S) /\ Cardinality(S) <= Cardinality(Caller)
    BY <1>1, FetchAssumption, FS_Injection
  <1> QED
    BY <1>2, FetchAssumption, FS_CardinalityType

\* A ceiling is overrun by fetches in flight only.
LEMMA CeilingStep ==
    ASSUME Typed, CountExact, OnePerCaller', CeilingHolds, NEW f \in Fetch, Frame(f),
           CountEffect(f), FlightEffect(f)
    PROVE  CeilingHolds'
  <1> USE DEF Counted
  <1> SUFFICES ASSUME NEW t \in Counted
               PROVE  Cardinality(InUse(t)') <= (MaxAbandoned - 1) + Cardinality(Caller)
    BY DEF CeilingHolds, InUse
  <1>1. tier' = tier
    BY DEF Frame
  <1>2. \A g \in Fetch \ {f} : (Abandoned(g)' <=> Abandoned(g)) /\ (InFetch(g)' <=> InFetch(g))
    BY OthersCount
  <1>3. IsFiniteSet(InUse(t)) /\ Cardinality(InUse(t)) <= (MaxAbandoned - 1) + Cardinality(Caller)
    BY FetchAssumption, FS_Subset DEF CeilingHolds, InUse
  <1>4. CASE InUse(t)' \subseteq InUse(t)
    <2>1. /\ Cardinality(InUse(t)') <= Cardinality(InUse(t))
          /\ Cardinality(InUse(t)') \in Nat /\ Cardinality(InUse(t)) \in Nat
      BY <1>3, <1>4, FS_Subset, FS_CardinalityType
    <2>2. Cardinality(Caller) \in Nat /\ MaxAbandoned \in Nat
      BY FetchAssumption, FS_CardinalityType
    <2> QED
      BY <1>3, <2>1, <2>2
  <1>5. CASE ~(InUse(t)' \subseteq InUse(t))
    <2>1. tier[f] = t /\ Pass(f)
      BY <1>1, <1>2, <1>5 DEF InUse, CountEffect, FlightEffect
    <2>2. abandoned[t] < MaxAbandoned
      BY <2>1, FetchAssumption DEF Pass, AtCeiling, Typed
    <2>3. counted' = counted /\ run' = run
      BY <2>1 DEF Pass
    <2>4. InUse(t)' \subseteq Left(t) \cup InFlight'
      BY <1>1, <2>3 DEF InUse, Left, InFlight, Abandoned, IsCamoufox, StillRunning, Alive
    <2>5. /\ IsFiniteSet(Left(t)) /\ Cardinality(Left(t)) \in Nat
          /\ Cardinality(Left(t)) = abandoned[t]
      BY FetchAssumption, FS_Subset, FS_CardinalityType DEF Left, CountExact
    <2>6. /\ IsFiniteSet(InFlight') /\ Cardinality(InFlight') \in Nat
          /\ Cardinality(Caller) \in Nat /\ Cardinality(InFlight') <= Cardinality(Caller)
      <3>1. /\ InFlight' \in SUBSET Fetch
            /\ \A g, h \in InFlight' : CallerOf[g] = CallerOf[h] => g = h
        BY DEF InFlight, OnePerCaller
      <3> QED
        BY <3>1, FlightBound
    <2>7. /\ IsFiniteSet(Left(t) \cup InFlight')
          /\ Cardinality(Left(t) \cup InFlight')
               = Cardinality(Left(t)) + Cardinality(InFlight') - Cardinality(Left(t) \cap InFlight')
      BY <2>5, <2>6, FS_Union
    <2>8. Cardinality(Left(t) \cap InFlight') \in Nat
      BY <2>5, FS_Intersection, FS_CardinalityType
    <2>9. /\ Cardinality(InUse(t)') <= Cardinality(Left(t) \cup InFlight')
          /\ Cardinality(InUse(t)') \in Nat
      BY <2>4, <2>7, FS_Subset, FS_CardinalityType
    <2> QED
      BY <2>2, <2>5, <2>6, <2>7, <2>8, <2>9, FetchAssumption
  <1> QED
    BY <1>4, <1>5

-----------------------------------------------------------------------------
(* The theorems                                                             *)

\* Nothing has been fetched yet.
LEMMA InitInv == Init => IInv
  <1> SUFFICES ASSUME Init PROVE IInv
    OBVIOUS
  <1>1. Typed
    <2>1. PICK s \in Setups : psutil = s.psutil /\ capacity = s.capacity /\ tier = s.tier
      BY DEF Init
    <2>2. s \in [tier : [Fetch -> Tier \cup {"unused"}], capacity : Nat \ {0}, psutil : BOOLEAN]
      BY <2>1, FetchAssumption
    <2>3. [tier |-> tier, capacity |-> capacity, psutil |-> psutil] = s
      BY <2>1, <2>2
    <2>4. [tier |-> tier, capacity |-> capacity, psutil |-> psutil] \in Setups
      BY <2>3
    <2>5. psutil \in BOOLEAN /\ capacity \in Nat \ {0} /\ tier \in [Fetch -> Tier \cup {"unused"}]
      BY <2>1, <2>2
    <2> QED
      BY <2>4, <2>5 DEF Init, Typed, MainPc, ThreadPc
  <1>2. ASSUME NEW f \in Fetch PROVE Local(f) /\ Gone(f)
    BY <1>1, <1>2 DEF Init, Typed, Local, ThreadKnown, Claims, Filled, CountedLate, Gone, IsBrowser,
         IsCamoufox, IsUc
  <1>3. ProcsKnown /\ FrozenSafe /\ OnePerCaller
    BY DEF Init, ProcsKnown, FrozenSafe, OnePerCaller, InFetch
  <1>4. PermitsExact
    <2>1. Holders = {}
      BY DEF Init, Holders, HoldsGate
    <2> QED
      BY <1>1, <2>1, FS_EmptySet DEF Init, PermitsExact, Typed
  <1>5. \A t \in Counted : Left(t) = {} /\ InUse(t) = {}
    BY DEF Init, Left, InUse, Abandoned, InFetch
  <1>6. CountExact
    BY <1>5, FS_EmptySet DEF Init, CountExact, Left, Counted
  <1>7. CeilingHolds
    <2>1. Cardinality(Caller) \in Nat /\ MaxAbandoned \in Nat \ {0}
      BY FetchAssumption, FS_CardinalityType
    <2>2. \A t \in Counted : Cardinality(InUse(t)) = 0
      BY <1>5, FS_EmptySet
    <2> QED
      BY <2>1, <2>2 DEF CeilingHolds, InUse, Counted
  <1> QED
    BY <1>1, <1>2, <1>3, <1>4, <1>6, <1>7 DEF IInv

\* Every step keeps the invariant, and has the effect on processes that
\* ProcEffect states.
LEMMA StepInv ==
    ASSUME IInv, NEW f \in Fetch, Step(f)
    PROVE  IInv' /\ ProcEffect(f) /\ Frame(f)
  <1>1. Frame(f) /\ Fields' /\ \A g \in Fetch : Local(g)'
    BY LocalStep DEF IInv
  <1>2. permits' \in Nat /\ PermitsExact'
    BY <1>1, GateSteps, PermitsStep DEF IInv
  <1>3. /\ ProcEffect(f) /\ procs' \subseteq Process
        /\ ProcsKnown' /\ FrozenSafe' /\ \A g \in Fetch : Gone(g)'
    BY <1>1, ProcsStep DEF IInv
  <1>4. CountEffect(f) /\ FlightEffect(f)
    BY SharedCount, BrowserCount, CamoufoxCount, UcCount DEF IInv, Step, TierStep
  <1>5. abandoned' \in [Counted -> Int] /\ CountExact'
    BY <1>1, <1>4, CountStep DEF IInv
  <1>6. OnePerCaller'
    BY <1>1, <1>4, OnePerCallerStep DEF IInv
  <1>7. CeilingHolds'
    BY <1>1, <1>4, <1>6, CeilingStep DEF IInv
  <1>8. Typed'
    BY <1>1, <1>2, <1>3, <1>5 DEF IInv, Typed, Fields, Frame, ProcEffect, Counted
  <1> QED
    BY <1>1, <1>2, <1>3, <1>5, <1>6, <1>7, <1>8 DEF IInv

\* A step that changes nothing keeps the invariant.
LEMMA StutterInv ==
    ASSUME IInv, UNCHANGED vars
    PROVE  IInv'
  <1> USE DEF vars, machine, kills
  <1>1. Typed'
    BY DEF IInv, Typed
  <1>2. ASSUME NEW f \in Fetch PROVE Local(f)' /\ Gone(f)'
    <2>1. Local(f) /\ Gone(f)
      BY DEF IInv
    <2>2. Local(f)'
      BY <2>1 DEF Local, ThreadKnown, Claims, Filled, CountedLate, IsBrowser, IsCamoufox, IsUc
    <2>3. Gone(f)'
      BY <2>1 DEF Gone, Closed, IsUc
    <2> QED
      BY <2>2, <2>3
  <1>3. ProcsKnown' /\ FrozenSafe' /\ OnePerCaller'
    BY DEF IInv, ProcsKnown, FrozenSafe, OnePerCaller, InFetch
  <1>4. PermitsExact'
    BY DEF IInv, PermitsExact, Holders, HoldsGate
  <1>5. CountExact' /\ CeilingHolds'
    BY DEF IInv, CountExact, CeilingHolds, Abandoned, IsCamoufox, StillRunning, Alive, InFetch
  <1> QED
    BY <1>1, <1>2, <1>3, <1>4, <1>5 DEF IInv

\* The inductive invariant of the three tiers behind their gate.
THEOREM TiersInvariant == Spec => []IInv
  <1>1. Init => IInv
    BY InitInv
  <1>2. IInv /\ [Next]_vars => IInv'
    BY StepInv, StutterInv DEF Next, Step
  <1> QED
    BY <1>1, <1>2, PTL DEF Spec

\* Every variable keeps its type: no more permits than the gate has, and no
\* ceiling below zero or above the number of fetches.
THEOREM TypeCorrect == Spec => []TypeOK
  <1>1. IInv => TypeOK
    <2> SUFFICES ASSUME IInv PROVE TypeOK
      OBVIOUS
    <2>1. permits \in 0 .. capacity
      <3>1. Cardinality(Holders) \in Nat
        BY FetchAssumption, FS_Subset, FS_CardinalityType DEF Holders
      <3> QED
        BY <3>1 DEF IInv, Typed, PermitsExact
    <2>2. ASSUME NEW t \in Counted PROVE abandoned[t] \in 0 .. Cardinality(Fetch)
      <3>1. Left(t) \in SUBSET Fetch
        BY DEF Left
      <3>2. /\ Cardinality(Left(t)) \in Nat /\ Cardinality(Fetch) \in Nat
            /\ Cardinality(Left(t)) <= Cardinality(Fetch)
        BY <3>1, FetchAssumption, FS_Subset, FS_CardinalityType
      <3>3. abandoned[t] = Cardinality(Left(t))
        BY DEF IInv, CountExact, Left, Counted
      <3> QED
        BY <3>2, <3>3
    <2>3. abandoned \in [Counted -> 0 .. Cardinality(Fetch)]
      BY <2>2 DEF IInv, Typed, Counted
    <2> QED
      BY <2>1, <2>3 DEF IInv, Typed, TypeOK, MainPc, ThreadPc, Counted
  <1> QED
    BY <1>1, TiersInvariant, PTL

\* Each tier's ceiling counts exactly its threads that were left behind and
\* still work (_count_abandoned, the `finally` of _run and _drive).
THEOREM CountExactHolds == Spec => []CountExact
  <1>1. IInv => CountExact
    BY DEF IInv
  <1> QED
    BY <1>1, TiersInvariant, PTL

\* max_abandoned_fetches is overrun by at most one fetch per calling thread,
\* although it is tested before the wait for the gate.
THEOREM CeilingNeverOverrun == Spec => []CeilingHolds
  <1>1. IInv => CeilingHolds
    BY DEF IInv
  <1> QED
    BY <1>1, TiersInvariant, PTL

\* fetch() never reads an empty holder, whoever wins the claim and whenever.
THEOREM HolderFilledHolds == Spec => []HolderFilled
  <1>1. IInv => HolderFilled
    BY DEF IInv, Local, Filled, HolderFilled
  <1> QED
    BY <1>1, TiersInvariant, PTL

\* Once the thread of a fetch that ran into its deadline has ended, its
\* browser is gone.
THEOREM LateBrowserGoneHolds == Spec => []LateBrowserGone
  <1>1. IInv => LateBrowserGone
    <2> SUFFICES ASSUME IInv, NEW f \in Fetch, outcome[f] = "watchdog", ~Alive(f)
                 PROVE  <<f, "browser">> \notin procs
      BY DEF LateBrowserGone
    <2>1. Closed(f)
      BY DEF Closed, Alive
    <2> QED
      BY <2>1 DEF IInv, Gone
  <1> QED
    BY <1>1, TiersInvariant, PTL

\* No kill of one fetch reaches a process of another that holds the gate:
\* neither by marker, nor by frozen identity, nor by novelty.
THEOREM KillsSpareOthersHolds == Spec => KillsSpareOthers
  <1> DEFINE Spares ==
        \A f \in Fetch : HoldsGate(f) /\ main'[f] = main[f] /\ run'[f] = run[f]
                            => Own(f) \subseteq procs'
  <1>1. IInv /\ [Next]_vars => Spares
    <2> SUFFICES ASSUME IInv, [Next]_vars, NEW f \in Fetch, HoldsGate(f),
                        main'[f] = main[f], run'[f] = run[f], NEW p \in Own(f)
                 PROVE  p \in procs'
      OBVIOUS
    <2>1. p \in procs /\ p[1] = f
      BY DEF Own
    <2>2. ASSUME NEW g \in Fetch, Step(g) PROVE p \in procs'
      <3>1. ProcEffect(g)
        BY <2>2, StepInv
      <3>2. CASE g = f
        BY <2>1, <3>1, <3>2 DEF ProcEffect
      <3>3. CASE g # f
        <4> SUFFICES ASSUME p \notin procs' PROVE FALSE
          OBVIOUS
        <4>1. p \in frozen[g] \/ (HoldsGate(g) /\ SingleFlight)
          BY <2>1, <3>1, <3>3 DEF ProcEffect, OwnIds
        <4>2. CASE p \in frozen[g]
          BY <2>1, <3>3, <4>2 DEF IInv, FrozenSafe, HoldsGate
        <4>3. CASE HoldsGate(g) /\ SingleFlight
          BY <3>3, <4>3, SoleHolder DEF IInv
        <4> QED
          BY <4>1, <4>2, <4>3
      <3> QED
        BY <3>2, <3>3
    <2>3. CASE UNCHANGED vars
      BY <2>1, <2>3 DEF vars
    <2> QED
      BY <2>2, <2>3 DEF Next, Step
  <1>2. IInv /\ [Next]_vars => [Spares]_vars
    BY <1>1
  <1> QED
    BY <1>2, TiersInvariant, PTL DEF Spec, KillsSpareOthers

=============================================================================
