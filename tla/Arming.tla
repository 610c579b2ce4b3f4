------------------------------- MODULE Arming -------------------------------
(***************************************************************************)
(* How a server gets its chaos: command line flags write environment       *)
(* variables (cli.py), the settings are read from the environment once per *)
(* process and cached (config.py), and create_app makes a profile, a seed  *)
(* and a world of them (api/app.py, chaos/profiles.py, chaos/scenario.py). *)
(*                                                                         *)
(* A menu is the set of fault kinds it names and a wheel, on which each    *)
(* kind stands as often as it weighs.  A probability is a number of ticks  *)
(* of the coin a request's stream throws.                                  *)
(***************************************************************************)
EXTENDS Integers, Sequences, Faults

CONSTANTS
    Unset,           \* None
    NoProfile,       \* no chaos profile: the planner is not armed
    NotRead,         \* the settings cache is empty
    Builtin,         \* BUILTIN: intensity -> profile
    Scenarios,       \* the valid files of scenarios/: name -> ScenarioSpec
    Shells,          \* environments a process may be started in
    Flags            \* command lines of lzt-testnet

Menu == [kinds : SUBSET FaultKind, wheel : Seq(FaultKind)]

ASSUME MenuAssumption ==
    /\ "off" \notin DOMAIN Builtin
    /\ \A i \in DOMAIN Builtin :
          /\ Builtin[i].base \in Menu /\ Builtin[i].probability \in Nat
          /\ \A e \in DOMAIN Builtin[i].per : Builtin[i].per[e] \in Menu

\* A file that validates has menus of known faults, where it has menus.
ASSUME ScenarioAssumption ==
    \A name \in DOMAIN Scenarios :
        /\ Scenarios[name].weights \in Menu \cup {Unset}
        /\ \A e \in DOMAIN Scenarios[name].per : Scenarios[name].per[e] \in Menu

\* The fields of Settings: modes are those of the enum, here and in the flags.
Modes       == {"off"} \cup DOMAIN Builtin
Environment == [mode : Modes, seed : Int, scenario : STRING \cup {Unset},
                world : BOOLEAN, key : STRING \cup {Unset}]

ASSUME ShellAssumption ==
    /\ Shells \subseteq Environment
    /\ Flags \subseteq [mode : Modes \cup {Unset}, seed : Int \cup {Unset},
                        scenario : STRING \cup {Unset}]
    /\ NotRead \notin Environment

VARIABLES
    env,         \* the LZT_TESTNET_* variables of the process
    asked,       \* history: the flags of the last command line
    settings     \* the Settings object get_settings has cached

arming == <<env, asked, settings>>

-----------------------------------------------------------------------------
(* Profiles and scenarios *)

EmptyMenu == [kinds |-> {}, wheel |-> <<>>]

ProfileFor(intensity) ==
    IF intensity \in DOMAIN Builtin THEN Builtin[intensity] ELSE NoProfile

MenuFor(profile, endpoint) ==
    IF endpoint \in DOMAIN profile.per THEN profile.per[endpoint]
    ELSE profile.base

\* Mutant: a scenario with no base profile fires every other time.
ToProfileCoinFlip(spec) ==
    LET base == ProfileFor(spec.intensity)
    IN [probability |-> IF spec.probability # Unset THEN spec.probability
                        ELSE IF base # NoProfile THEN base.probability ELSE 1,
        base |-> IF spec.weights # Unset THEN spec.weights
                 ELSE IF base # NoProfile THEN base.base ELSE EmptyMenu,
        per |-> spec.per]

\* What a scenario does not say its intensity says; "off" says nothing.
ToProfile(spec) ==
    LET base == ProfileFor(spec.intensity)
    IN [probability |-> IF spec.probability # Unset THEN spec.probability
                        ELSE IF base # NoProfile THEN base.probability ELSE 0,
        base |-> IF spec.weights # Unset THEN spec.weights
                 ELSE IF base # NoProfile THEN base.base ELSE EmptyMenu,
        per |-> spec.per]

\* What create_app makes of the settings.  A scenario decides on profile and
\* world alone; its seed gives way to any seed of the settings but nought.
ArmedBy(s) ==
    IF s.scenario # Unset
    THEN LET spec == Scenarios[s.scenario]
         IN [profile |-> ToProfile(spec), world |-> spec.world,
             seed |-> IF s.seed # 0 THEN s.seed ELSE spec.seed]
    ELSE [profile |-> ProfileFor(s.mode), world |-> s.world \/ s.mode # "off",
          seed |-> s.seed]

\* load_scenario raises on a name with no valid file: there is no app then.
Loads(s) == s.scenario = Unset \/ s.scenario \in DOMAIN Scenarios

-----------------------------------------------------------------------------
(* Processes, command lines and the settings cache *)

Read == IF settings = NotRead THEN env ELSE settings

NoFlags == [mode |-> Unset, seed |-> Unset, scenario |-> Unset]

NewProcess(shell) ==
    /\ env' = shell
    /\ asked' = NoFlags
    /\ settings' = NotRead

Given(flag, old) == IF flag = Unset THEN old ELSE flag

\* Mutant: main does not clear the settings cache.
CommandLineStale(flags) ==
    /\ env' = [env EXCEPT !.mode = Given(flags.mode, @),
                          !.seed = Given(flags.seed, @),
                          !.scenario = Given(flags.scenario, @)]
    /\ asked' = flags
    /\ UNCHANGED settings

\* main: a flag that is not given leaves its variable as it is, whoever set it.
CommandLine(flags) ==
    /\ env' = [env EXCEPT !.mode = Given(flags.mode, @),
                          !.seed = Given(flags.seed, @),
                          !.scenario = Given(flags.scenario, @)]
    /\ asked' = flags
    /\ settings' = NotRead
=============================================================================
