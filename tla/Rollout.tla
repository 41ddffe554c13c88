-------------------------------- MODULE Rollout --------------------------------
(***************************************************************************)
(* What spec.rollout, spec.startupProbe and spec.extraArgs of a            *)
(* ConversionWebhookServer turn into: the admission checks                 *)
(* (api/v1alpha1/rollout_validation.go, extra_args.go), the pod the        *)
(* controller renders from them (reconcileDeployment), and, outside the    *)
(* repository, how Go's flag package reads the arguments and which         *)
(* RollingUpdate strategies the API server takes.  Durations are in ticks. *)
(***************************************************************************)
EXTENDS Integers, Sequences

CONSTANTS
    DefaultPreStopSleep,      \* DefaultPreStopSleepSeconds
    DefaultGracePeriod,       \* DefaultGracePeriodSeconds
    DefaultShutdownTimeout,   \* DefaultWebhookServerShutdownTimeout
    StartupBudget,            \* periodSeconds x failureThreshold of the startupProbe
    Unset,                    \* a field that is not set, a flag without "=value"
    Refused                   \* an argument list that does not parse

(***************************************************************************)
(* An argument: its leading dashes, the flag's name, and the duration      *)
(* after "=", or Unset.  An argument without a dash is a bare value.  Text *)
(* that is no duration is -1.                                              *)
(***************************************************************************)
managedFlags == {"webhook-server-name", "metrics-bind-address"}
boolFlags == {"otel-exporter-otlp-insecure"}

longFlagName(arg) == IF arg.dashes = 2 /\ arg.name # "" THEN arg.name ELSE Unset

\* `--flag value`: the next argument is taken for the flag's value.
SkipsValue(args, i) ==
    args[i].value = Unset /\ i < Len(args) /\ args[i + 1].dashes = 0

ValidateWebhookServerExtraArgs(args) ==
    LET accepts[i \in 1 .. Len(args) + 2] ==
          \/ i > Len(args)
          \/ LET name == longFlagName(args[i]) IN
             IF name = Unset THEN accepts[i + 1]
             ELSE /\ name \notin managedFlags
                  /\ accepts[IF SkipsValue(args, i) THEN i + 2 ELSE i + 1]
    IN accepts[1]

TextOf(args, i) ==
    IF args[i].value # Unset THEN args[i].value
    ELSE IF i < Len(args) /\ args[i + 1].dashes = 0 THEN args[i + 1].value
    ELSE -1

\* The last --shutdown-timeout in args, or Refused when one does not parse.
shutdownTimeoutFromArgs(args) ==
    LET scan[i \in 1 .. Len(args) + 2] ==
          IF i > Len(args) THEN Unset
          ELSE IF longFlagName(args[i]) # "shutdown-timeout"
               THEN scan[IF longFlagName(args[i]) # Unset /\ SkipsValue(args, i)
                         THEN i + 2 ELSE i + 1]
          ELSE IF TextOf(args, i) <= 0 THEN Refused
          ELSE LET later == scan[IF args[i].value = Unset THEN i + 2 ELSE i + 1]
               IN IF later = Unset THEN TextOf(args, i) ELSE later
        last == scan[1]
    IN IF last = Unset THEN DefaultShutdownTimeout ELSE last

\* The value the process runs with: flag.Parse takes one dash or two, stops at
\* the first bare argument, and gives every flag that is not Boolean and has no
\* "=" the next argument whatever it is; Refused stands for an exit at start.
FlagParse(args, default) ==
    LET scan[i \in 1 .. Len(args) + 2] ==
          IF i > Len(args) \/ (i <= Len(args) /\ args[i].dashes = 0) THEN Unset
          ELSE LET next == IF args[i].value # Unset \/ args[i].name \in boolFlags
                           THEN i + 1 ELSE i + 2
                   later == scan[next]
               IN IF args[i].name # "shutdown-timeout" THEN later
                  ELSE IF TextOf(args, i) <= 0 THEN Refused
                  ELSE IF later # Unset THEN later ELSE TextOf(args, i)
        last == scan[1]
    IN IF last = Unset THEN default ELSE last

\* Admission and the process read the same drain from args, or the process
\* refuses to start.  So it is for the forms the documentation uses.
ReadAlike(args) ==
    LET drain == FlagParse(args, DefaultShutdownTimeout)
    IN drain = Refused \/ (drain \in Nat /\ drain = shutdownTimeoutFromArgs(args))

(***************************************************************************)
(* spec.rollout: preStop and grace, each possibly Unset, and the two       *)
(* IntOrString fields, [kind: "int" or "percent" or "text", n].            *)
(***************************************************************************)
rolloutPreStopSeconds(spec) ==
    IF spec.preStop = Unset THEN DefaultPreStopSleep ELSE spec.preStop

rolloutGracePeriod(spec) ==
    IF spec.grace = Unset THEN DefaultGracePeriod ELSE spec.grace

validateIntOrPercent(v) == v = Unset \/ (v.kind # "text" /\ v.n >= 0)

isZeroIntOrPercent(v) == v.kind # "text" /\ v.n = 0

validateRolloutStrategy(spec) ==
    /\ validateIntOrPercent(spec.maxUnavailable)
    /\ validateIntOrPercent(spec.maxSurge)
    /\ ~ /\ spec.maxUnavailable = Unset \/ isZeroIntOrPercent(spec.maxUnavailable)
         /\ spec.maxSurge # Unset /\ isZeroIntOrPercent(spec.maxSurge)

\* Mutant: a grace period equal to sleep plus drain is enough.
fitsAtEquality(spec, args) ==
    /\ shutdownTimeoutFromArgs(args) # Refused
    /\ rolloutPreStopSeconds(spec) + shutdownTimeoutFromArgs(args)
         <= rolloutGracePeriod(spec)
    /\ validateRolloutStrategy(spec)

\* The drain must end strictly before the kubelet's SIGKILL.
ValidateWebhookServerRollout(spec, args) ==
    /\ shutdownTimeoutFromArgs(args) # Refused
    /\ rolloutPreStopSeconds(spec) + shutdownTimeoutFromArgs(args)
         < rolloutGracePeriod(spec)
    /\ validateRolloutStrategy(spec)

\* rolloutStrategy: 0 and 1 where unset.
rolloutStrategy(spec) ==
    LET or(v, n) == IF v = Unset THEN [kind |-> "int", n |-> n] ELSE v
    IN [maxUnavailable |-> or(spec.maxUnavailable, 0), maxSurge |-> or(spec.maxSurge, 1)]

\* The API server's check of a RollingUpdate strategy.
StrategyAccepted(strategy) ==
    /\ \A v \in {strategy.maxUnavailable, strategy.maxSurge} : v.kind # "text" /\ v.n >= 0
    /\ strategy.maxUnavailable.n # 0 \/ strategy.maxSurge.n # 0

\* Admission (ValidateCreate, ValidateUpdate), without the checks of the fleet.
Admitted(spec, args) ==
    /\ ValidateWebhookServerExtraArgs(args)
    /\ ValidateWebhookServerRollout(spec, args)

\* The pod reconcileDeployment renders: the managed flags come first, then
\* extraArgs; the process drains for the timeout its own flag parsing yields.
reconcileDeployment(spec, args) ==
    [preStop      |-> rolloutPreStopSeconds(spec),
     grace        |-> rolloutGracePeriod(spec),
     drain        |-> FlagParse(args, DefaultShutdownTimeout),
     startupProbe |-> spec.startupProbe]
=============================================================================
