---------------------------- MODULE SidecarConfig ----------------------------
(***************************************************************************)
(* How the operator's settings for worker sidecars and the retry policy in *)
(* them reach a sidecar: pkg/serverless/reliability.go and                 *)
(* worker_config.go, desiredUnitServerlessSidecar, which writes them into  *)
(* the environment of the container, and pkg/workersidecar/config.go,      *)
(* which reads them back.                                                  *)
(*                                                                         *)
(* A text with several parts holds commas.  The numbers in the environment *)
(* are decimal; Atoi and Sscanf read back what FormatInt wrote.            *)
(***************************************************************************)
EXTENDS PackageCatalog, SequencesExt

CONSTANT Durations    \* seconds of the words that time.ParseDuration accepts

\* None of them has a comma.
ASSUME DurationAssumption == \A w \in DOMAIN Durations : Len(w) = 1

DefaultRetryMaxDeliver == 5
defaultRetryBackoff == <<Plain(<<"2s">>), Plain(<<"10s">>), Plain(<<"30s">>)>>
DefaultHeartbeatInterval == Plain(<<"15s">>)
DefaultHealthPort == 8091
defaultDispatchAckWait == Plain(<<"5m">>)

ParseDuration(t) == t.form = "plain" /\ t.word \in DOMAIN Durations

\* RetryPolicy.Normalized: texts keep the spaces they are parsed without.
NormalizedRetry(p) ==
  LET max == IF p.maxDeliver <= 0 THEN DefaultRetryMaxDeliver ELSE p.maxDeliver
      backoff == IF p.backoff = <<>> THEN defaultRetryBackoff ELSE p.backoff
  IN  Accept(/\ Len(backoff) <= max
             /\ \A i \in DOMAIN backoff : /\ ParseDuration(TrimSpace(backoff[i]))
                                          /\ Durations[TrimSpace(backoff[i]).word] > 0,
             [maxDeliver |-> max, backoff |-> backoff])

BackoffDurations(p) == [i \in DOMAIN p.backoff |-> Durations[TrimSpace(p.backoff[i]).word]]

\* MUTANT of DelayForDelivery: the deliveries are counted from 0.
DelayFromZero(p, delivery) ==
  LET delays == BackoffDurations(p)
  IN  IF delivery + 1 > Len(delays) THEN delays[Len(delays)] ELSE delays[delivery + 1]

DelayForDelivery(p, delivery) ==
  LET delays == BackoffDurations(p)
  IN  IF delays = <<>> THEN 0
      ELSE IF delivery = 0 THEN delays[1]
      ELSE IF delivery > Len(delays) THEN delays[Len(delays)]
      ELSE delays[delivery]

ValidPort(n) == n \in 1..65535

\* WorkerSidecarConfig.Normalized: the interval is parsed with its spaces.
NormalizedWorkerConfig(c) ==
  LET interval == IF TrimSpace(c.heartbeatInterval) = Blank
                  THEN DefaultHeartbeatInterval ELSE c.heartbeatInterval
  IN  IF ParseDuration(interval)
      THEN {[healthPort |-> IF ValidPort(c.healthPort) THEN c.healthPort ELSE DefaultHealthPort,
             heartbeatInterval |-> interval, dispatchRetry |-> r] : r \in NormalizedRetry(c.dispatchRetry)}
      ELSE {}

-----------------------------------------------------------------------------
\* strings.Join(values, ","): the parts of all of them, each as it is written.
Join(values) ==
  FlattenSeq([i \in DOMAIN values |->
               [j \in DOMAIN values[i].word |-> Text(<<values[i].word[j]>>, values[i].form)]])

\* SplitRetryBackoff: the parts between the commas, trimmed.
SplitRetryBackoff(joined) == [i \in DOMAIN joined |-> TrimSpace(joined[i])]

\* The environment of the container; it has no entry for the dispatch ack wait.
sidecarEnv(unitName, serverless, config) ==
  [workerName |-> unitName, requestID |-> serverless.requestID,
   socketPath |-> serverless.socketPath, invokePath |-> serverless.invokePath,
   healthPath |-> serverless.healthPath,
   heartbeatInterval |-> config.heartbeatInterval, healthPort |-> config.healthPort,
   maxDeliver |-> config.dispatchRetry.maxDeliver, backoff |-> Join(config.dispatchRetry.backoff)]

RetryPolicyFromEnv(maxDeliver, backoff) ==
  [maxDeliver |-> maxDeliver, backoff |-> SplitRetryBackoff(backoff)]

-----------------------------------------------------------------------------
(***************************************************************************)
(* Request IDs and paths, as the API, the controller and the sidecar each  *)
(* normalise them.  A path that starts with "/" and means the root is      *)
(* "/" in plain form and, for example, "//" in unclean form.               *)
(***************************************************************************)
Root == Plain(<<"/">>)
Clean(t) == IF t.form \in {"relative", "unclean"} THEN Plain(t.word) ELSE t
SocketDir == <<"/", "tmp", "serverless-framework">>
DefaultSocketPath == Plain(Append(SocketDir, "framework.sock"))
DefaultInvokePath == Plain(<<"/", "invoke">>)
DefaultHealthPath == Plain(<<"/", "healthz">>)

UnderSocketDir(t) == IsStrictPrefix(SocketDir, t.word)

NormalizeRequestID(t) ==
  LET id == ToLower(TrimSpace(t)) IN Accept(IsName(id) /\ Len(id.word) = 1, id)

normalizeSocketPath(t) ==
  IF TrimSpace(t) = Blank THEN DefaultSocketPath ELSE Clean(TrimSpace(t))

\* normalizePath of the sidecar and of the controller, which do not clean it.
normalizePath(t, fallback) ==
  LET rooted == IF TrimSpace(t).form = "relative" THEN Plain(t.word) ELSE TrimSpace(t)
  IN  IF rooted \in {Blank, Root} THEN fallback ELSE rooted

\* MUTANT of normalizeFrameworkPath: the path is taken below the default one.
nestedFrameworkPath(t, fallback) ==
  LET path == Clean(normalizePath(t, fallback))
  IN  IF path = fallback THEN path ELSE Plain(fallback.word \o Tail(path.word))

\* normalizeServerlessFrameworkPath of the API.
normalizeFrameworkPath(t, fallback) == Clean(normalizePath(t, fallback))

-----------------------------------------------------------------------------
\* LoadConfigFromEnv and Config.Normalized
LoadConfigFromEnv(env) ==
  LET socket == normalizeSocketPath(env.socketPath)
      interval == Default(TrimSpace(env.heartbeatInterval), DefaultHeartbeatInterval)
  IN  IF /\ TrimSpace(env.workerName) # Blank
         /\ ParseDuration(interval)
         /\ UnderSocketDir(socket)
      THEN {[workerName |-> TrimSpace(env.workerName), requestID |-> id, socketPath |-> socket,
             invokePath |-> normalizePath(env.invokePath, DefaultInvokePath),
             healthPath |-> normalizePath(env.healthPath, DefaultHealthPath),
             heartbeatInterval |-> interval,
             healthPort |-> IF ValidPort(env.healthPort) THEN env.healthPort ELSE DefaultHealthPort,
             dispatchAckWait |-> defaultDispatchAckWait,
             dispatchRetry |-> r]
              : id \in NormalizeRequestID(env.requestID),
                r \in NormalizedRetry(RetryPolicyFromEnv(env.maxDeliver, env.backoff))}
      ELSE {}
=============================================================================
