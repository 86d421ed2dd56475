---------------------------- MODULE UnitContract ----------------------------
(***************************************************************************)
(* The contract of a GPUUnit, from both sides: how the API normalises and  *)
(* refuses requests (pkg/contract/gpuunit.go, serverless.go) and how the   *)
(* controller reads the spec that was stored                               *)
(* (internal/controller/runtime_unit_helpers.go).                          *)
(*                                                                         *)
(* The namespace is fixed.  Commands, arguments and the values of          *)
(* environment variables pass through unchanged and are left out.          *)
(***************************************************************************)
EXTENDS SidecarConfig, Functions, FiniteSets

CONSTANT NameOrder   \* the rank of a name in the order of strings

ASSUME NameOrderAssumption == NameOrder \in [DOMAIN NameOrder -> Nat] /\ IsInjective(NameOrder)

SSHTexts == {"username", "serverAddr", "connectHost", "domainSuffix", "clientName",
             "clientDomain", "token", "image", "frpImage"}
SSHPorts == {"port", "serverPort", "connectPort"}

NoSSH == [enabled |-> FALSE, authorizedKeys |-> <<>>,
          text |-> [f \in SSHTexts |-> Blank], port |-> [f \in SSHPorts |-> 0]]
NoServerless == [enabled |-> FALSE, requestID |-> Blank, minAvailableCount |-> 0,
                 idleTimeoutSeconds |-> 0, minRequestCount |-> 0,
                 socketPath |-> Blank, invokePath |-> Blank, healthPath |-> Blank]
NoTemplate == [envs |-> <<>>, ports |-> <<>>]
NoAccess == [primaryPort |-> Blank, scheme |-> Blank]

DefaultAccessScheme == Plain(<<"http">>)
DefaultUnitSSHUsername == Plain(<<"runtime">>)
DefaultSSHPort == [port |-> 2222, serverPort |-> 7000, connectPort |-> 1337]
DefaultSSHImage == [image |-> Plain(<<"ssh-image">>), frpImage |-> Plain(<<"frp-image">>)]

Counts == {"minAvailableCount", "idleTimeoutSeconds", "minRequestCount"}
DefaultIdleTimeout == 300

\* The members of a finite set in the order of their ranks, which are different.
inOrder(S, rank) ==
  [n \in 1..Cardinality(S) |->
     CHOOSE x \in S : Cardinality({y \in S : rank[y] < rank[x]}) = n - 1]

\* What the fields of a body of JSON may hold.
SSHBody(s) == s.authorizedKeys \in Seq(Texts)
ServerlessBody(s) ==
  s \in [enabled : BOOLEAN, requestID : Texts, minAvailableCount : Int, idleTimeoutSeconds : Int,
         minRequestCount : Int, socketPath : Texts, invokePath : Texts, healthPath : Texts]
\* The names of mounts have their place in the order.
MountList(ms) ==
  /\ ms \in Seq([name : Texts, mountPath : Texts])
  /\ \A i \in DOMAIN ms : ms[i].name.word \in DOMAIN NameOrder

-----------------------------------------------------------------------------
(***************************************************************************)
(* The parts of a request.                                                 *)
(***************************************************************************)
NormalizeGPUUnitTemplate(t) ==
  LET envs == [i \in DOMAIN t.envs |-> TrimSpace(t.envs[i])]
      ports == [i \in DOMAIN t.ports |->
                  [name |-> TrimSpace(t.ports[i].name), port |-> t.ports[i].port,
                   protocol |-> IF t.ports[i].protocol = "" THEN "TCP" ELSE t.ports[i].protocol]]
      names == [i \in DOMAIN ports |-> ports[i].name]
      numbers == [i \in DOMAIN ports |-> ports[i].port]
  IN  Accept(/\ \A i \in DOMAIN envs : IsName(envs[i])
             /\ \A i \in DOMAIN ports : IsName(names[i]) /\ ValidPort(numbers[i])
             /\ IsInjective(envs) /\ IsInjective(names) /\ IsInjective(numbers),
             [envs |-> envs, ports |-> ports])

IsZeroGPUUnitTemplate(t) == t.envs = <<>> /\ t.ports = <<>>
IsZeroGPUUnitAccess(a) == TrimSpace(a.primaryPort) = Blank /\ TrimSpace(a.scheme) = Blank

NormalizeGPUUnitAccess(a, ports) ==
  LET given == TrimSpace(a.primaryPort)
      primary == IF given = Blank /\ ports # <<>> THEN ports[1].name ELSE given
  IN  Accept(IF ports = <<>> THEN primary = Blank
             ELSE \E i \in DOMAIN ports : ports[i].name = primary,
             [primaryPort |-> primary,
              scheme |-> Default(ToLower(TrimSpace(a.scheme)), DefaultAccessScheme)])

\* Keys are trimmed; blank ones and repetitions are dropped, the order is kept.
authorizedKeys(keys) ==
  LET trimmed == [i \in DOMAIN keys |-> TrimSpace(keys[i])]
      first(i) == \A j \in 1..(i - 1) : trimmed[j] # trimmed[i]
      kept == {i \in DOMAIN keys : trimmed[i] # Blank /\ first(i)}
      order == inOrder(kept, [i \in kept |-> i])
  IN  [n \in DOMAIN order |-> trimmed[order[n]]]

\* The domain "<unit>.<namespace>.<suffix>".
clientDomainOf(unitName, suffix) == Plain(unitName.word \o <<"runtime-instance">> \o suffix.word)

\* What the API and the controller have in common: texts trimmed and lowered,
\* defaults filled in, apart from the client's name and domain.
trimmedSSH(ssh) ==
  LET t == [f \in SSHTexts |-> TrimSpace(ssh.text[f])]
  IN  [t EXCEPT !["username"] = Default(ToLower(@), DefaultUnitSSHUsername),
                !["connectHost"] = Default(@, t["serverAddr"]),
                !["domainSuffix"] = TrimDot(@),
                !["clientName"] = ToLower(@),
                !["clientDomain"] = ToLower(@),
                !["image"] = Default(@, DefaultSSHImage.image),
                !["frpImage"] = Default(@, DefaultSSHImage.frpImage)]
sshPorts(ssh) ==
  [f \in SSHPorts |-> IF ssh.port[f] = 0 THEN DefaultSSHPort[f] ELSE ssh.port[f]]
sshUsable(t, keys, ports) ==
  /\ IsName(t["username"]) /\ Len(t["username"].word) = 1
  /\ keys # <<>>
  /\ t["serverAddr"] # Blank
  /\ \A f \in SSHPorts : ValidPort(ports[f])

NormalizeGPUUnitSSH(unitName, ssh) ==
  LET t == trimmedSSH(ssh)
      keys == authorizedKeys(ssh.authorizedKeys)
      suffix == t["domainSuffix"]
      domain == Default(t["clientDomain"], clientDomainOf(unitName, suffix))
  IN  IF ~ssh.enabled THEN {NoSSH}
      ELSE Accept(/\ sshUsable(t, keys, sshPorts(ssh))
                  /\ t["clientDomain"] # Blank \/ suffix # Blank
                  /\ suffix = Blank \/ IsName(suffix)
                  /\ t["clientName"] = Blank \/ IsName(t["clientName"])
                  /\ IsName(domain),
                  [enabled |-> TRUE, authorizedKeys |-> keys,
                   text |-> [t EXCEPT !["clientDomain"] = domain], port |-> sshPorts(ssh)])

NormalizeGPUUnitServerlessFramework(s) ==
  LET socket == normalizeSocketPath(s.socketPath)
  IN  Accept(UnderSocketDir(socket),
             [s EXCEPT !.socketPath = socket,
                       !.invokePath = normalizeFrameworkPath(@, DefaultInvokePath),
                       !.healthPath = normalizeFrameworkPath(@, DefaultHealthPath)])

\* A request ID or a positive count enables serverless.
serverlessRequested(s) ==
  s.enabled \/ TrimSpace(s.requestID) # Blank \/ \E f \in Counts : s[f] > 0

enabledServerless(s, id) ==
  [s EXCEPT !.enabled = TRUE, !.requestID = id,
            !.idleTimeoutSeconds = IF @ = 0 THEN DefaultIdleTimeout ELSE @]

NormalizeGPUUnitServerless(s) ==
  IF ~serverlessRequested(s) THEN {NoServerless}
  ELSE IF \E f \in Counts : s[f] < 0 THEN {}
  ELSE {enabledServerless(f, id)
          : id \in NormalizeRequestID(s.requestID), f \in NormalizeGPUUnitServerlessFramework(s)}

trimmedMounts(ms) ==
  [i \in DOMAIN ms |-> [name |-> ToLower(TrimSpace(ms[i].name)),
                        mountPath |-> Clean(TrimSpace(ms[i].mountPath))]]
mountsUsable(ms) ==
  LET out == trimmedMounts(ms) IN
  /\ \A i \in DOMAIN ms : /\ IsName(out[i].name)
                          /\ TrimSpace(ms[i].mountPath).form # "relative"
                          /\ out[i].mountPath \notin {Blank, Root}
  /\ IsInjective([i \in DOMAIN out |-> out[i].name])
  /\ IsInjective([i \in DOMAIN out |-> out[i].mountPath])

\* MUTANT of NormalizeGPUUnitStorageMounts: the mounts stay in their order.
NormalizeMountsUnsorted(ms) == Accept(mountsUsable(ms), trimmedMounts(ms))

NormalizeGPUUnitStorageMounts(ms) ==
  LET out == trimmedMounts(ms)
      mounts == {out[i] : i \in DOMAIN out}
  IN  Accept(mountsUsable(ms), inOrder(mounts, [m \in mounts |-> NameOrder[m.name.word]]))

-----------------------------------------------------------------------------
(***************************************************************************)
(* Requests.                                                               *)
(***************************************************************************)
\* NormalizeGPUUnitObjectKey, normalizeRuntimeResourceName
NormalizeName(t) == LET n == ToLower(TrimSpace(t)) IN Accept(IsName(n), n)

claimNameOf(unitName) == Plain(<<"unit">> \o unitName.word \o <<"gpu">>)

NormalizeDRAAllocation(unitName, a) ==
  Accept(/\ TrimSpace(a.deviceClassName) # Blank
         /\ a.count > 0
         /\ \A k \in DOMAIN a.capacity : TrimSpace(k) # Blank /\ ParseQuantity(a.capacity[k])
         /\ \A i \in DOMAIN a.selectors : TrimSpace(a.selectors[i]) # Blank,
         [a EXCEPT !.deviceClassName = TrimSpace(@),
                   !.claimName = Default(TrimSpace(@), claimNameOf(unitName)),
                   !.claimRequestName = Default(TrimSpace(@), UnitDRAClaimRequestName)])

\* The package is looked up, and must exist unless the request brings an
\* allocation of its own: the activator's do, and its catalogue is empty.
packaged(req, catalog) ==
  LET id == ToLower(TrimSpace(req.packageID))
      own == TrimSpace(req.allocation.deviceClassName) # Blank
  IN  IF id # Blank /\ (Lookup(catalog, id) # {} \/ ~own)
      THEN ExpandRuntimePackage(req, catalog)
      ELSE Accept(id # Blank \/ own, [req EXCEPT !.packageID = id])

trimmedFields(req) == [f \in Fields |-> TrimSpace(req.fields[f])]

\* The requests with the parts of req, normalised, and the template t.
requestParts(req, name, t) ==
  {[operationID |-> TrimSpace(req.operationID), name |-> name, packageID |-> req.packageID,
    fields |-> trimmedFields(req), image |-> TrimSpace(req.image), gpu |-> req.gpu,
    allocation |-> al, template |-> t, access |-> ac, ssh |-> ss, serverless |-> se,
    storageMounts |-> m]
     : al \in NormalizeDRAAllocation(name, req.allocation),
       ac \in NormalizeGPUUnitAccess(req.access, t.ports),
       ss \in NormalizeGPUUnitSSH(name, req.ssh),
       se \in NormalizeGPUUnitServerless(req.serverless),
       m \in NormalizeGPUUnitStorageMounts(req.storageMounts)}

\* What becomes of a request once its package is filled in and its name accepted.
normalizedParts(req, name) ==
  IF /\ TrimSpace(req.operationID) # Blank
     /\ trimmedFields(req)["specName"] # Blank /\ TrimSpace(req.image) # Blank
     /\ \A f \in {"cpu", "memory"} : ParseQuantity(trimmedFields(req)[f])
     /\ req.gpu > 0
  THEN UNION {requestParts(req, name, t) : t \in NormalizeGPUUnitTemplate(req.template)}
  ELSE {}

NormalizeCreateGPUUnitRequest(raw, catalog) ==
  UNION {normalizedParts(req, name) : req \in packaged(raw, catalog), name \in NormalizeName(raw.name)}

\* A pointer p of an update request, the set of what it points to, {} for nil,
\* and the results of normalising that.
Pointed(p, results) == IF p = {} THEN {{}} ELSE {{v} : v \in results}

pointedSSH(unitName, p) == Pointed(p, UNION {NormalizeGPUUnitSSH(unitName, s) : s \in p})
pointedServerless(p) == Pointed(p, UNION {NormalizeGPUUnitServerless(s) : s \in p})
pointedMounts(p) == Pointed(p, UNION {NormalizeGPUUnitStorageMounts(ms) : ms \in p})

NormalizeUpdateGPUUnitRequest(unitName, req) ==
  {[image |-> TrimSpace(req.image), template |-> t,
    access |-> [primaryPort |-> TrimSpace(req.access.primaryPort),
                scheme |-> ToLower(TrimSpace(req.access.scheme))],
    ssh |-> ss, serverless |-> se, storageMounts |-> m]
     : t \in NormalizeGPUUnitTemplate(req.template), ss \in pointedSSH(unitName, req.ssh),
       se \in pointedServerless(req.serverless), m \in pointedMounts(req.storageMounts)}

-----------------------------------------------------------------------------
(***************************************************************************)
(* The controller's view of a stored spec.                                 *)
(***************************************************************************)
resolveUnitServerlessSpec(s) ==
  LET socket == normalizeSocketPath(s.socketPath)
  IN  IF ~s.enabled /\ TrimSpace(s.requestID) = Blank THEN {NoServerless}
      ELSE IF (\E f \in Counts : s[f] < 0) \/ ~UnderSocketDir(socket) THEN {}
      ELSE {[enabledServerless(s, id) EXCEPT
               !.socketPath = socket,
               !.invokePath = normalizePath(@, DefaultInvokePath),
               !.healthPath = normalizePath(@, DefaultHealthPath)]
              : id \in NormalizeRequestID(s.requestID)}

unitServerlessEnabled(s) ==
  serverlessRequested(s) \/ \E f \in {"socketPath", "invokePath", "healthPath"} : TrimSpace(s[f]) # Blank

\* prefixedRuntimeName: the names are short enough not to be cut.
clientNameOf(unitName) == Plain(<<"ssh", "runtime-instance">> \o unitName.word)

\* The suffix is not validated here, and the client gets a name of its own.
resolveUnitSSHSpec(unitName, ssh) ==
  LET t == trimmedSSH(ssh)
      keys == authorizedKeys(ssh.authorizedKeys)
      domain == Default(t["clientDomain"], clientDomainOf(unitName, t["domainSuffix"]))
      client == Default(t["clientName"], clientNameOf(unitName))
  IN  IF ~ssh.enabled THEN {NoSSH}
      ELSE Accept(/\ sshUsable(t, keys, sshPorts(ssh))
                  /\ t["clientDomain"] # Blank \/ t["domainSuffix"] # Blank
                  /\ IsName(client) /\ IsName(domain),
                  [enabled |-> TRUE, authorizedKeys |-> keys, port |-> sshPorts(ssh),
                   text |-> [t EXCEPT !["clientDomain"] = domain, !["clientName"] = client]])

\* The controller's copy of NormalizeGPUUnitAccess.
normalizeControllerGPUUnitAccess(a, ports) == NormalizeGPUUnitAccess(a, ports)

\* The environments a unit's sidecar may get under the operator's settings, which
\* must include a queue that is configured and valid.
desiredUnitServerlessSidecar(unitName, serverless, config) ==
  {sidecarEnv(unitName, s, c) : s \in {s \in resolveUnitServerlessSpec(serverless) : s.enabled},
                                c \in {c \in NormalizedWorkerConfig(config) : config.queue = "valid"}}
=============================================================================
