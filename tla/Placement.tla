----------------------------- MODULE Placement ------------------------------
(***************************************************************************)
(* What a router knows of the machine it runs on: the power sources and    *)
(* the hardware probe (hardware-probe.ts), the rolling window of local     *)
(* throughput (throughput-meter.ts), and the plan an operator is shown     *)
(* (placement-plan.ts), which diagnoses from the same facts, by tests of   *)
(* its own, what the local_zero stage gates on (router-pipeline.ts).       *)
(*                                                                         *)
(* Throughput is in tokens per second; medians are doubled, to stay whole. *)
(***************************************************************************)
EXTENDS Naturals, Sequences, FiniteSets

CONSTANTS
  MinFull,        \* min_memory_gb_full
  MinClassify,    \* min_memory_gb_classification
  BatteryMin,     \* battery_threshold_pct
  DiskMin,        \* DISK_CONSTRAINED_FREE_GB
  ThresholdTps,   \* thresholdTps
  WindowSize,     \* windowSize
  Unset           \* null

PlacementConstants ==
  /\ {MinFull, MinClassify, BatteryMin, DiskMin, ThresholdTps, WindowSize} \subseteq Nat
  /\ Unset \notin Nat \union BOOLEAN

Power == [level : {Unset} \union Nat, ac : {Unset} \union BOOLEAN]

Sample == [tps : Nat, phase : {"warm", "cold"}]

\* Any machine, and what was measured and probed on it.
Facts == [info        : [platform : STRING, arch : STRING, memory : Nat, power : Power],
          services    : Seq({"down", "idle", "loaded"}),
          disk        : {Unset} \union Nat,
          window      : Seq(Sample),
          requireWarm : BOOLEAN]

-----------------------------------------------------------------------------
(***************************************************************************)
(* Power and the hardware probe.                                           *)
(***************************************************************************)
\* readLinuxPowerInfo: the first entry of type Battery counts; a file of it that is
\* missing leaves its half unknown; no battery at all, or a file that is there and cannot
\* be read, is mains power.
LinuxPower(entries) ==
  LET decisive == SelectSeq(entries, LAMBDA e : e.type = "Battery" \/ ~e.readable)
      level    == decisive[1].capacity
      status   == decisive[1].status
      onAc     == IF status = Unset THEN Unset
                  ELSE status \in {"Charging", "Full", "Not charging"}
  IN  IF decisive = <<>> \/ ~decisive[1].readable \/ (level = Unset /\ onAc = Unset)
      THEN [level |-> Unset, ac |-> TRUE]
      ELSE [level |-> level, ac |-> onAc]

\* parseBatteryInfo of pmset; a command that fails is mains power.
MacPower(output) ==
  IF output = Unset THEN [level |-> Unset, ac |-> TRUE]
  ELSE [level |-> output.percent, ac |-> output.source = "AC Power"]

\* readWindowsPowerInfo: a status of 1 is discharging.
WindowsPower(battery) ==
  IF battery = Unset \/ (battery.percent = Unset /\ battery.status = Unset)
  THEN [level |-> Unset, ac |-> TRUE]
  ELSE [level |-> battery.percent,
        ac |-> IF battery.status = Unset THEN Unset ELSE battery.status # 1]

Supported ==
  {[platform |-> "darwin", arch |-> "arm64"]}
  \union [platform : {"linux", "win32"}, arch : {"x64", "arm64"}]

IsSupported(info) == [platform |-> info.platform, arch |-> info.arch] \in Supported

OnLowBattery(power) ==
  power.ac = FALSE /\ power.level # Unset /\ power.level < BatteryMin

ProbeHardware(info) ==
  IF ~IsSupported(info) \/ OnLowBattery(info.power) THEN "disabled"
  ELSE IF info.memory >= MinFull THEN "full_local"
  ELSE IF info.memory >= MinClassify THEN "classification_only"
  ELSE "disabled"

-----------------------------------------------------------------------------
(***************************************************************************)
(* The throughput meter: a window of [tps, phase].                         *)
(***************************************************************************)
\* computeTokensPerSecond: Unset for what is not a measurement.
TokensPerSecond(tokens, ms) == IF ms = 0 THEN Unset ELSE (tokens * 1000) \div ms

\* recordSample.
Sampled(window, tps, phase) ==
  IF tps = Unset THEN window
  ELSE LET w == Append(window, [tps |-> tps, phase |-> phase])
       IN  IF Len(w) > WindowSize THEN Tail(w) ELSE w

\* The samples of a phase, by their places in the window.
Phase(window, phase) == {i \in DOMAIN window : window[i].phase = phase}

\* The k-th smallest of the samples at these places.
Smallest(window, places, k) ==
  LET upto(v) == Cardinality({i \in places : window[i].tps <= v})
      values  == {window[i].tps : i \in places}
  IN  CHOOSE v \in values : k <= upto(v) /\ \A w \in values : k <= upto(w) => v <= w

\* median of throughput-meter.ts, twice: the middle sample, or the two nearest to the middle.
Median2(window, places) ==
  LET mid == Cardinality(places) \div 2
  IN  IF places = {} THEN Unset
      ELSE IF Cardinality(places) % 2 = 1 THEN 2 * Smallest(window, places, mid + 1)
      ELSE Smallest(window, places, mid) + Smallest(window, places, mid + 1)

\* isAboveThreshold, what local_zero asks: warm and cold samples together.
IsAboveThreshold(window) ==
  LET m == Median2(window, DOMAIN window) IN m # Unset /\ m >= 2 * ThresholdTps

\* getBreakdown.
Breakdown(window) ==
  LET warm == Phase(window, "warm")
      cold == Phase(window, "cold")
  IN  [warm |-> Median2(window, warm), cold |-> Median2(window, cold),
       class |-> IF warm # {} THEN "warm" ELSE IF cold # {} THEN "cold-only"
                 ELSE "no-samples"]

\* isViable and isThroughputViable.
IsViable(b, requireWarm) ==
  CASE b.class = "warm"       -> b.warm >= 2 * ThresholdTps
    [] b.class = "cold-only"  -> ~requireWarm /\ b.cold >= 2 * ThresholdTps
    [] b.class = "no-samples" -> FALSE

-----------------------------------------------------------------------------
(***************************************************************************)
(* The plan, of Facts.                                                     *)
(***************************************************************************)
Reachable(facts) == \E s \in DOMAIN facts.services : facts.services[s] # "down"

Loaded(facts) == \E s \in DOMAIN facts.services : facts.services[s] = "loaded"

\* Mutant: the list of platforms the diagnosis keeps lacks one the probe supports.
Diagnosable_NoWindowsArm ==
  {[platform |-> "darwin", arch |-> "arm64"], [platform |-> "win32", arch |-> "x64"]}
  \union [platform : {"linux"}, arch : {"x64", "arm64"}]

\* The list of platforms of guessBottleneck, its own.
Diagnosable ==
  {[platform |-> "darwin", arch |-> "arm64"]}
  \union [platform : {"linux", "win32"}, arch : {"x64", "arm64"}]

\* guessBottleneck: the first test that hits.
Bottleneck(facts) ==
  LET b     == Breakdown(facts.window)
      probe == ProbeHardware(facts.info)
  IN  CASE probe = "disabled" ->
             IF [platform |-> facts.info.platform, arch |-> facts.info.arch] \notin Diagnosable
             THEN "unsupported-platform"
             ELSE IF OnLowBattery(facts.info.power) THEN "battery" ELSE "memory"
        [] probe = "classification_only" -> "memory"
        [] probe = "full_local" ->
             IF facts.disk # Unset /\ facts.disk < DiskMin THEN "disk"
             ELSE IF ~Reachable(facts) THEN "no-local-runtime"
             ELSE IF ~Loaded(facts) THEN "cold-start"
             ELSE IF b.class = "cold-only" THEN "cold-throughput"
             ELSE IF b.class = "warm" /\ b.warm < 2 * ThresholdTps THEN "warm-throughput"
             ELSE "none"

\* deriveRecommendation.
Recommendation(facts) ==
  LET b == Breakdown(facts.window)
  IN  IF ProbeHardware(facts.info) # "full_local" \/ ~Reachable(facts)
      THEN "local-unavailable"
      ELSE IF ~Loaded(facts) \/ b.class = "cold-only" THEN "local-warmup-needed"
      ELSE IF b.class = "warm" /\ ~IsViable(b, facts.requireWarm) THEN "local-unavailable"
      ELSE "local-ready"

\* The gates of local_zero on the same facts, for an eligible prompt.
GoesLocal(facts) ==
  ProbeHardware(facts.info) = "full_local" /\ IsAboveThreshold(facts.window) /\ Loaded(facts)

-----------------------------------------------------------------------------
(***************************************************************************)
(* Properties of any facts.                                                *)
(***************************************************************************)
\* The diagnosis is true of the machine: the cause it names holds, although it decides
\* again, in another order and from lists of its own, what the probe decided; it finds none
\* only when the plan says ready, and then it has found none, or the disk, which the plan
\* does not look at.
DiagnosisHolds(facts) ==
  LET guess == Bottleneck(facts)
  IN  /\ guess = "unsupported-platform" <=> ~IsSupported(facts.info)
      /\ guess = "battery" => OnLowBattery(facts.info.power)
      /\ guess = "memory"  => facts.info.memory < MinFull /\ ~OnLowBattery(facts.info.power)
      /\ guess = "none" => Recommendation(facts) = "local-ready"
      /\ Recommendation(facts) = "local-ready" => guess \in {"none", "disk"}

\* On a window of warm samples, one at least and no cold one, the plan says ready exactly
\* when the router would go local; neither looks at the disk.
PlanAgreesWithGate(facts) ==
  facts.window # <<>> /\ Phase(facts.window, "cold") = {}
    => (Recommendation(facts) = "local-ready" <=> GoesLocal(facts))

\* Violated: under disk pressure the plan reports local as unavailable, and the router
\* escalates (QUALITY_POLICY_NOTES).
DiskPressureIsRespected(facts) ==
  facts.disk # Unset /\ facts.disk < DiskMin => Recommendation(facts) # "local-ready" /\ ~GoesLocal(facts)

\* Violated: local is ready only with warm samples (QUALITY_POLICY_NOTES): a window without
\* any sample is ready to the plan, and not to the router.
ReadyIsMeasured(facts) ==
  Recommendation(facts) = "local-ready" => Breakdown(facts.window).class = "warm" /\ GoesLocal(facts)

\* Violated: local_zero takes the median of cold samples too, or alone, where the plan
\* says that cold windows fail closed.
ColdFailsClosed(facts) ==
  Breakdown(facts.window).class = "cold-only" => ~GoesLocal(facts)

\* A machine on battery below the threshold does no local inference, whatever its memory;
\* any other supported machine does as much as its memory allows, the limits included.
PowerIsRespected(facts) ==
  LET probe == ProbeHardware(facts.info)
  IN  /\ facts.info.power.ac = FALSE /\ facts.info.power.level \in 0..(BatteryMin - 1)
           => probe = "disabled"
      /\ IsSupported(facts.info) /\ facts.info.power.ac = TRUE
           => /\ probe = "full_local" <=> facts.info.memory \in MinFull..facts.info.memory
              /\ probe = "disabled" <=> \A least \in {MinFull, MinClassify} : facts.info.memory < least
=============================================================================
