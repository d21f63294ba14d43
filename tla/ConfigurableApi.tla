--------------------------- MODULE ConfigurableApi ---------------------------
(***************************************************************************)
(* The failure source of the experiments (experiments/configurable_api.py, *)
(* experiment_5_hybrid/scenarios.py): a scripted prefix of outcomes, then  *)
(* failure probabilities, and a latency per call.  One definition per      *)
(* factory.  The seeded draws are the environment's: a call whose failure  *)
(* probability is neither 0 nor 1 may go either way.                       *)
(*                                                                         *)
(* Probabilities are in percent, the compound factor in tenths, latencies  *)
(* in milliseconds.  Costs are reported and never looked at: left out.     *)
(***************************************************************************)
EXTENDS Integers, Sequences, SequencesExt

Times(n, value) == [i \in 1..n |-> value]

\* A script as the lengths of its runs: successes, failures, successes, ...
Alternating(runs) ==
  FlattenSeq([i \in DOMAIN runs |-> Times(runs[i], i % 2 = 1)])

\* The last value of a profile holds for every later call.
Extended(profile, k) == profile[IF k <= Len(profile) THEN k ELSE Len(profile)]

\* An entry of the segment lists: burst_index or segment_index, the steps, the type.
Segment(index, start_step, end_step, segment_type) ==
  [ index |-> index, start_step |-> start_step, end_step |-> end_step,
    segment_type |-> segment_type ]

\* ConfigurableAPI.__init__: what is not given, and what most scenarios share.
Scripted(name, schedule, fail_probs, latency) ==
  [ name |-> name, schedule |-> schedule, fail_probs |-> fail_probs, latency |-> latency,
    compound |-> 10, segments |-> << >>, productive_goal |-> 0 ]

\* min(base * factor ** consecutive, 1.0), multiplied out until it is certain.
CompoundedProb(prob, factor, consecutive) ==
  LET raised[n \in 0..consecutive] ==
        IF n = 0 THEN prob
        ELSE LET next == (raised[n - 1] * factor) \div 10 IN IF next >= 100 THEN 100 ELSE next
  IN  IF factor = 10 THEN prob ELSE raised[consecutive]

\* call(): the outcomes the k-th call may have after so many failures in a row.
OutcomesOf(api, k, consecutive) ==
  LET prob == CompoundedProb(Extended(api.fail_probs, k - Len(api.schedule)),
                             api.compound, consecutive)
  IN  IF k <= Len(api.schedule) THEN {api.schedule[k]}
      ELSE IF prob = 0 THEN {TRUE} ELSE IF prob >= 100 THEN {FALSE} ELSE BOOLEAN

LatencyOf(api, k) == Extended(api.latency, k)
-----------------------------------------------------------------------------
TransientBlip ==
  Scripted("transient_blip", Alternating(<<2, 1>>), <<0>>, <<80, 80, 500, 80>>)

RoughPatch(failure_length) ==
  Scripted("rough_patch", Alternating(<<2, failure_length>>), <<0>>,
           <<80, 80>> \o Times(failure_length, 400) \o <<80>>)

SlowBurn ==
  Scripted("slow_burn", << >>,
           FlattenSeq([i \in 1..5 |-> Times(4, <<5, 15, 30, 45, 60>>[i])]),
           [i \in 1..20 |-> 80 + 15 * (i - 1)])

NoisyRecovery ==
  [ Scripted("noisy_recovery", Alternating(<<2, 2, 2, 1, 1, 1, 1, 1, 9>>), <<0>>,
             <<80, 80, 350, 380, 120, 100, 320, 80, 300, 80, 250, 100, 90, 85>> \o Times(6, 80))
    EXCEPT !.segments = << Segment(0, 1, 2, "stable"), Segment(1, 3, 10, "noisy"),
                           Segment(2, 11, 14, "transition"), Segment(3, 15, 20, "stable") >> ]

SmolderingInstability ==
  [ Scripted("smoldering_instability", Alternating(<<2, 2, 2, 1, 1, 1, 3, 2, 1, 2, 3>>), <<0>>,
             <<80, 80, 350, 380, 160, 140, 320, 160, 300, 150,
               220, 230, 400, 420, 220, 390, 410, 200, 210, 200>>)
    EXCEPT !.segments = << Segment(0, 1, 2, "stable"), Segment(1, 3, 10, "noisy"),
                           Segment(2, 11, 20, "chronic") >> ]

BurstyRecovery ==
  [ Scripted("bursty_recovery", Alternating(<<2, 3, 2, 2, 11>>), <<0>>,
             <<80, 80, 400, 400, 400, 200, 200, 350, 350,
               180, 160, 140, 120, 100, 90, 85, 82, 80, 80, 80>>)
    EXCEPT !.segments = << Segment(0, 1, 2, "stable"), Segment(1, 3, 5, "burst"),
                           Segment(1, 6, 7, "recovery"), Segment(2, 8, 9, "burst"),
                           Segment(2, 10, 20, "recovery") >> ]

IntermittentCascade ==
  [ Scripted("intermittent_cascade", Alternating(<<2, 3, 2, 3, 3, 3>>), <<100>>,
             <<80, 80, 400, 400, 400, 280, 280, 430, 430, 430,
               300, 300, 300, 460, 460, 460>> \o Times(4, 480))
    EXCEPT !.segments = << Segment(0, 1, 2, "stable"), Segment(1, 3, 5, "burst"),
                           Segment(1, 6, 7, "recovery"), Segment(2, 8, 10, "burst"),
                           Segment(2, 11, 13, "recovery"), Segment(3, 14, 20, "burst") >> ]

\* The matched pair is the same through step 6.
MatchedRecovery ==
  Scripted("matched_recovery", Alternating(<<3, 3, 6>>), <<0>>,
           <<80, 80, 500, 400, 400, 400, 350, 280, 200, 150, 100, 80>>)

MatchedCollapse ==
  Scripted("matched_collapse", Alternating(<<3, 6>>), <<100>>,
           <<80, 80, 500, 400, 400, 400, 420, 450, 480, 500>>)

RunawayCascade ==
  [ Scripted("runaway_cascade", Alternating(<<2, 2>>), <<50>>,
             <<80, 80, 400, 450>> \o [i \in 1..16 |-> 500 + 30 * (i - 1)])
    EXCEPT !.compound = 18 ]

FanoutCascade ==
  Scripted("fanout_cascade", Alternating(<<5, 4, 1, 1, 1>>), <<100>>,
           <<80, 80, 120, 160, 220, 350, 400, 440, 460, 380, 450, 360>> \o Times(8, 480))

\* The same as cascading_burst through call 9.
RecoverableBurst ==
  [ Scripted("recoverable_burst", Alternating(<<2, 7>>), <<70, 50, 30, 10, 0>>,
             <<80, 80, 400, 415, 430, 440, 450, 455, 460, 420, 350, 250, 150>> \o Times(17, 80))
    EXCEPT !.productive_goal = 5 ]

Benign == [Scripted("benign", << >>, <<5>>, <<80>>) EXCEPT !.productive_goal = 5]

CascadingBurst ==
  Scripted("cascading_burst", Alternating(<<2, 7>>), <<100>>,
           <<80, 80, 400, 415, 430, 440, 450, 455, 460>> \o Times(21, 480))

DistributedLowRate ==
  Scripted("distributed_low_rate", FlattenSeq(Times(10, <<FALSE, FALSE, TRUE>>)), <<67>>,
           [i \in 1..30 |-> IF i % 3 = 0 THEN 80 ELSE 200])

\* Any outcomes whatever, at one latency: what the scenarios leave open.
Anything(latency) == Scripted("anything", << >>, <<50>>, <<latency>>)
=============================================================================
