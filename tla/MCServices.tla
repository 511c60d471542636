----------------------------- MODULE MCServices -----------------------------
(* Six components that share no state, checked side by side: a behaviour is *)
(* one of recovery's passes, of the SDK's batcher, of a wrapped provider    *)
(* call, of the environment registry, of a pull import or of a worker's     *)
(* connection pools, as focus says.  The others stand still.                *)
EXTENDS RecoveryCursor, EventBatcher, EnvironmentRegistry, Instrumentation, ImportWindows,
        ConnectionPools

VARIABLE focus

FirstCast == CHOOSE c \in Casts : TRUE
FirstTarget == CHOOSE t \in Targets : TRUE

ServicesInit ==
    /\ focus \in {"recovery", "batcher", "call", "environments", "import", "pools"}
    /\ Init /\ BatcherInit /\ EnvInit /\ SdkInit /\ WindowsInit /\ PoolsInit
    /\ focus # "recovery" => pending = {}
    /\ focus # "batcher" => ~hook
    /\ focus # "call" => call.shape = "whole"
    /\ focus # "import" => provider = "langfuse"
    /\ focus # "pools" => cast = FirstCast /\ target = FirstTarget

OnlyRecovery     == focus = "recovery"
                    /\ UNCHANGED <<batcherVars, envVars, sdkVars, windowVars, poolVars, focus>>
OnlyBatcher      == focus = "batcher"
                    /\ UNCHANGED <<vars, envVars, sdkVars, windowVars, poolVars, focus>>
OnlyCall         == focus = "call"
                    /\ UNCHANGED <<vars, batcherVars, envVars, windowVars, poolVars, focus>>
OnlyEnvironments == focus = "environments"
                    /\ UNCHANGED <<vars, batcherVars, sdkVars, windowVars, poolVars, focus>>
OnlyImport       == focus = "import"
                    /\ UNCHANGED <<vars, batcherVars, envVars, sdkVars, poolVars, focus>>
OnlyPools        == focus = "pools"
                    /\ UNCHANGED <<vars, batcherVars, envVars, sdkVars, windowVars, focus>>

ServicesNext ==
    \/ OnlyRecovery /\ Next
    \/ OnlyBatcher /\ BatcherNext
    \/ OnlyCall /\ SdkNext
    \/ OnlyEnvironments /\ EnvNext
    \/ OnlyImport /\ WindowsNext
    \/ OnlyPools /\ PoolsNext

(* The component that runs makes progress.  For recovery this asks less     *)
(* than its Spec: some pass goes on, not each.                              *)
ServicesProgress ==
    \/ OnlyRecovery /\ \E c \in Recons : Pass(c)
    \/ OnlyBatcher /\ BatcherProgress
    \/ OnlyEnvironments /\ EnvProgress
    \/ OnlyImport /\ WindowsProgress

servicesVars == <<vars, batcherVars, sdkVars, envVars, windowVars, poolVars, focus>>
ServicesSpec ==
    ServicesInit /\ [][ServicesNext]_servicesVars /\ WF_servicesVars(ServicesProgress)

(* Of a behaviour of recovery's passes: no intent waits for ever, except for *)
(* what NoStarvation names.                                                 *)
NoIntentStarves == focus = "recovery" => NoStarvation

(* What was begun ends: close() returns although the server never answers;  *)
(* a rebuild of the environment registry ends although its replicas fail,   *)
(* die or outlive their leases; and an import catches up with its provider, *)
(* although each run ends after MaxPages pages, fails, or dies with the     *)
(* lease.                                                                   *)
ComesToRest == []<>(closing.pc # "waiting" /\ rebuild.started = 0 /\ CaughtUp)

(* What each component's state may be. *)
ServicesTypeOK ==
    /\ TypeOK /\ BatcherTypeOK /\ SdkTypeOK /\ EnvTypeOK /\ WindowsTypeOK
    /\ focus = "pools" => PoolsTypeOK

\* Two jobs about one object or two, whose records are the same in two orders.
Second == CHOOSE p \in Processors : TRUE
MCCasts == {{"recovery", "sweep"}, {"retention", "import"}}
MCTargets ==
    {[a \in Actors |->
         [object |-> CASE a = Second -> n [] a = "sweep" -> 3 [] OTHER -> 1,
          records |-> IF a = Second THEN <<2, 1>> ELSE <<1, 2>>]] : n \in {1, 2}}
=============================================================================
