------------------------- MODULE UnitRequestsProofs -------------------------
(***************************************************************************)
(* For any requests, catalogues and invocations: what the API and the      *)
(* activator store has the resources of a configured package and a claim   *)
(* of its own, the controller and the sidecar can use it, a worker is what *)
(* its template was, and the request that made it is recognised again.     *)
(***************************************************************************)
EXTENDS UnitRequests, UnitContractProofs

UnitFields == {"name", "operationID", "hash", "spec", "asked", "package"}
RequestFields == SpecFields \cup {"operationID", "name"}

\* What NormalizedPackage returns: texts that trimming leaves alone, and an
\* allocation without a claim.
NormalPackage(p) ==
  LET a == p.allocation IN
  /\ p.id.form = "plain"
  /\ p.fields = [f \in Fields |-> p.fields[f]]
  /\ \A f \in Fields : p.fields[f].form # "spaced"
  /\ a = [deviceClassName |-> a.deviceClassName, claimName |-> Blank,
          claimRequestName |-> a.claimRequestName, count |-> a.count,
          capacity |-> a.capacity, selectors |-> a.selectors]
  /\ a.deviceClassName.form # "spaced" /\ a.deviceClassName # Blank
  /\ a.claimRequestName.form # "spaced" /\ a.claimRequestName # Blank

\* A spec or a request with the resources of package p, under a claim.
FromPackage(s, p, claim) ==
  /\ s.packageID = p.id /\ s.fields = p.fields /\ s.gpu = p.gpu
  /\ s.allocation = [p.allocation EXCEPT !.claimName = claim]

\* A name as the API server stores it.
StoredName(t) == t \in Texts /\ t.form = "plain" /\ t.word \in DOMAIN NameOrder

\* The claim of a unit is named after it.
ProperUnit(u) ==
  /\ DOMAIN u = UnitFields /\ DOMAIN u.spec = SpecFields
  /\ StoredName(u.name)
  /\ \E p \in offered : FromPackage(u.spec, p, claimNameOf(u.name))

\* The activator's request is as good as one of the API: its package was
\* offered once, and its claim is left to be named.
ProperRequest(r) ==
  /\ DOMAIN r = RequestFields
  /\ StoredName(r.name)
  /\ \E p \in offered : FromPackage(r, p, Blank)

UniqueUnits(us) == \A u, v \in us : u # v => u.name # v.name /\ u.operationID # v.operationID

Statuses == {0, 200, 201, 204, 400, 404, 409, 500}

CatalogInv == catalogue \subseteq offered /\ \A p \in offered : NormalPackage(p)
UnitsInv == UniqueUnits(units) /\ \A u \in units : ProperUnit(u)
InflightInv == inflight = {} \/ \E c \in inflight : inflight = {c} /\ ProperRequest(c.req)
OwnInv == storages \subseteq StorageNames /\ edits \in 0..MaxEdits /\ answer.status \in Statuses

RequestsInv == CatalogInv /\ UnitsInv /\ InflightInv /\ OwnInv

\* A spec as the API stores it: another normalisation finds nothing to do, but
\* for a framework path that means the root.
NormalSpec(s) ==
  /\ TrimSpace(s.image) = s.image
  /\ NormalizeGPUUnitTemplate(s.template) = {s.template}
  /\ NormalizeGPUUnitAccess(s.access, s.template.ports) = {s.access}
  /\ NormalSSH(s.ssh) /\ NormalServerless(s.serverless)
  /\ NormalizeGPUUnitStorageMounts(s.storageMounts) = {s.storageMounts}

\* A name under which ssh and a sidecar can be set up.
UsableName(t) == IsName(t) /\ IsName(clientNameOf(t))

\* The parts of a unit's spec that a clone takes over as they are.
ClonedParts == {"image", "template", "access", "ssh", "serverless", "storageMounts"}

NormalUnits == \A u \in units : NormalSpec(u.spec) /\ UsableName(u.name)

\* The activator's request says what the spec it was made from says.
NormalClones ==
  \A c \in inflight :
    /\ NormalSpec(c.from) /\ \A f \in ClonedParts : c.req[f] = c.from[f]
    /\ IsName(c.req.name) => UsableName(c.req.name)
    /\ \E p \in offered : /\ FromPackage(c.req, p, Blank)
                          /\ FromPackage(c.from, p, c.from.allocation.claimName)

\* Whoever repeats the request of a unit, in whatever words, asks for the same
\* unit as long as the package is the same.
KnownUnit(u) ==
  /\ \A q \in CreateRequests :
       u.asked = {Said(q)} => /\ NormalizeCreateGPUUnitRequest(q, u.package) = {u.hash}
                              /\ ToLower(TrimSpace(q.packageID)) = u.spec.packageID
  /\ u.hash.operationID = u.operationID

OneOfEachPackage == \A p, r \in catalogue : p.id = r.id => p = r
KnownInv == OneOfEachPackage /\ \A u \in units : KnownUnit(u)

-----------------------------------------------------------------------------
(* What the normalisers return.                                            *)

\* Two units with one claim have one name.
LEMMA ClaimsNameUnits ==
  ASSUME NEW s, NEW t, StoredName(s), StoredName(t), claimNameOf(s) = claimNameOf(t)
  PROVE  s = t
<1> DEFINE w == s.word
           v == t.word
           W == <<"unit">> \o w \o <<"gpu">>
           V == <<"unit">> \o v \o <<"gpu">>
<1>0. w \in Seq(STRING) /\ v \in Seq(STRING)
  BY DEF StoredName, Texts
<1>1. W = V
  BY DEF claimNameOf, Plain, Text
<1> HIDE DEF w, v
<1>2. Len(W) = Len(w) + 2 /\ Len(V) = Len(v) + 2
  BY <1>0
<1>3. \A i \in 1..Len(w) : W[i + 1] = w[i]
  BY <1>0
<1>4. \A i \in 1..Len(v) : V[i + 1] = v[i]
  BY <1>0
<1>5. Len(w) = Len(v)
  BY <1>0, <1>1, <1>2
<1>6. w = v
  <2> HIDE DEF W, V
  <2> QED BY <1>0, <1>1, <1>3, <1>4, <1>5
<1> QED BY <1>6 DEF StoredName, Texts, w, v

\* An accepted name is one the API server stores.
LEMMA NamesAreStored ==
  ASSUME NEW t \in Texts, t.word \in DOMAIN NameOrder, NEW n \in NormalizeName(t)
  PROVE  StoredName(n)
<1>1. n = ToLower(TrimSpace(t)) /\ n.form = "plain"
  BY DEF NormalizeName, Accept, IsName
<1>2. TrimSpace(t) \in Texts /\ TrimSpace(t).word = t.word
  BY DEF TrimSpace, Plain, Text, Texts, Forms
<1>3. n \in Texts /\ n.word = t.word
  BY <1>1, <1>2 DEF ToLower, Plain, Text, Texts, Forms
<1> QED BY <1>1, <1>3 DEF StoredName

\* A catalogue consists of normalised packages.
LEMMA CatalogsAreNormal ==
  ASSUME NEW c, NEW n \in NormalizedCatalog(c), NEW p \in n
  PROVE  NormalPackage(p)
<1>1. PICK i \in DOMAIN c : p \in NormalizedPackage(c[i])
  BY DEF NormalizedCatalog
<1>2. PICK m : \E a \in normalizePackageDRAAllocation(m) :
         p = [id |-> ToLower(TrimSpace(c[i].id)),
              fields |-> [f \in Fields |-> TrimSpace(c[i].fields[f])], gpu |-> c[i].gpu,
              allocation |-> a]
  BY <1>1 DEF NormalizedPackage
<1>3. IsName(p.id)
  BY <1>1 DEF NormalizedPackage
<1>4. PICK a \in normalizePackageDRAAllocation(m) :
         p = [id |-> ToLower(TrimSpace(c[i].id)),
              fields |-> [f \in Fields |-> TrimSpace(c[i].fields[f])], gpu |-> c[i].gpu,
              allocation |-> a]
  BY <1>2
<1>5. PICK k : a = [deviceClassName |-> TrimSpace(m.deviceClassName), claimName |-> Blank,
         claimRequestName |-> Default(TrimSpace(m.claimRequestName), UnitDRAClaimRequestName),
         count |-> m.count, capacity |-> k,
         selectors |-> [j \in DOMAIN m.selectors |-> TrimSpace(m.selectors[j])]]
  BY <1>4 DEF normalizePackageDRAAllocation
<1>6. TrimSpace(m.deviceClassName) # Blank
  BY <1>4 DEF normalizePackageDRAAllocation
<1>7. /\ UnitDRAClaimRequestName # Blank
      /\ Default(TrimSpace(m.claimRequestName), UnitDRAClaimRequestName) # Blank
      /\ Default(TrimSpace(m.claimRequestName), UnitDRAClaimRequestName).form # "spaced"
  BY Trimmed DEF UnitDRAClaimRequestName, Default, Blank, Plain, Text
<1>8. p.id.form = "plain"
  BY <1>3 DEF IsName
<1>9. \A f \in Fields : p.fields[f].form # "spaced"
  BY <1>4, Trimmed
<1>10. /\ p.allocation = a
       /\ p.fields = [f \in Fields |-> p.fields[f]]
  BY <1>4
<1> QED BY <1>5, <1>6, <1>7, <1>8, <1>9, <1>10, Trimmed DEF NormalPackage

\* A request whose resources are those of a package keeps them, and gets a claim
\* named after the unit.
LEMMA PartsKeepPackage ==
  ASSUME NEW req, NEW name, NEW p, NormalPackage(p), FromPackage(req, p, Blank),
         NEW n \in normalizedParts(req, name)
  PROVE  /\ n.name = name /\ DOMAIN n = RequestFields
         /\ FromPackage(n, p, claimNameOf(name))
<1>0. PICK t : n \in requestParts(req, name, t)
  BY DEF normalizedParts
<1> DEFINE made(al, ac, ss, se, m) ==
             [operationID |-> TrimSpace(req.operationID), name |-> name,
              packageID |-> req.packageID, fields |-> trimmedFields(req),
              image |-> TrimSpace(req.image), gpu |-> req.gpu, allocation |-> al,
              template |-> t, access |-> ac, ssh |-> ss, serverless |-> se, storageMounts |-> m]
<1>1. PICK al \in NormalizeDRAAllocation(name, req.allocation),
           ac \in NormalizeGPUUnitAccess(req.access, t.ports),
           ss \in NormalizeGPUUnitSSH(name, req.ssh),
           se \in NormalizeGPUUnitServerless(req.serverless),
           m \in NormalizeGPUUnitStorageMounts(req.storageMounts) : n = made(al, ac, ss, se, m)
  BY <1>0 DEF requestParts
<1>2. req.allocation = p.allocation /\ p.allocation.claimName = Blank
  BY DEF FromPackage, NormalPackage
<1>3. al = [p.allocation EXCEPT !.deviceClassName = TrimSpace(@),
              !.claimName = Default(TrimSpace(@), claimNameOf(name)),
              !.claimRequestName = Default(TrimSpace(@), UnitDRAClaimRequestName)]
  BY <1>1, <1>2 DEF NormalizeDRAAllocation, Accept
<1>4. /\ TrimSpace(p.allocation.deviceClassName) = p.allocation.deviceClassName
      /\ Default(TrimSpace(p.allocation.claimRequestName), UnitDRAClaimRequestName)
           = p.allocation.claimRequestName
      /\ Default(TrimSpace(p.allocation.claimName), claimNameOf(name)) = claimNameOf(name)
  BY <1>2, Trimmed DEF NormalPackage, Default, Blank, Plain, Text
<1>5. al = [p.allocation EXCEPT !.claimName = claimNameOf(name)]
  BY <1>3, <1>4 DEF NormalPackage
<1>6. trimmedFields(req) = p.fields
  BY Trimmed DEF trimmedFields, FromPackage, NormalPackage
<1>7. n.packageID = p.id /\ n.gpu = p.gpu
  BY <1>1 DEF FromPackage
<1> QED BY <1>1, <1>5, <1>6, <1>7 DEF FromPackage, RequestFields, SpecFields

\* A request of the API is expanded from the catalogue, or refused.
LEMMA ExpandedRequests ==
  ASSUME NEW q, DOMAIN q = RequestFields, q.allocation = NoAllocation, NEW catalog,
         \A p \in catalog : NormalPackage(p), NEW req \in packaged(q, catalog)
  PROVE  \E p \in catalog : FromPackage(req, p, Blank)
<1>1. TrimSpace(q.allocation.deviceClassName) = Blank
  BY DEF NoAllocation, TrimSpace, Blank, Plain, Text
<1>2. req \in ExpandRuntimePackage(q, catalog)
  BY <1>1 DEF packaged, Accept
<1>3. PICK p \in catalog :
        req = [q EXCEPT !.packageID = p.id, !.fields = p.fields, !.gpu = p.gpu,
                        !.allocation = p.allocation]
  BY <1>2 DEF ExpandRuntimePackage, Lookup
<1>4. p.allocation = [p.allocation EXCEPT !.claimName = Blank]
  <2> DEFINE a == p.allocation
  <2>1. a = [deviceClassName |-> a.deviceClassName, claimName |-> Blank,
             claimRequestName |-> a.claimRequestName, count |-> a.count,
             capacity |-> a.capacity, selectors |-> a.selectors]
    BY DEF NormalPackage
  <2> HIDE DEF a
  <2>2. a = [a EXCEPT !.claimName = Blank]
    BY <2>1
  <2> QED BY <2>2 DEF a
<1> QED BY <1>3, <1>4 DEF FromPackage, RequestFields, SpecFields

\* A request of the activator keeps its package, which no catalogue has.
LEMMA ClonedRequests ==
  ASSUME NEW q, DOMAIN q = RequestFields, NEW p, NormalPackage(p), FromPackage(q, p, Blank),
         NEW req \in packaged(q, {})
  PROVE  FromPackage(req, p, Blank)
<1>1. ToLower(TrimSpace(q.packageID)) = p.id
  BY Trimmed DEF FromPackage, NormalPackage
<1>2. Lookup({}, p.id) = {} /\ ExpandRuntimePackage(q, {}) = {}
  BY DEF Lookup, ExpandRuntimePackage
<1>3. req = [q EXCEPT !.packageID = p.id]
  BY <1>1, <1>2 DEF packaged, Accept
<1> QED BY <1>3 DEF FromPackage, RequestFields, SpecFields

\* What CreateGPUUnit stores, if anything, was expanded from an offered package.
LEMMA StoredRequests ==
  ASSUME NEW p, NormalPackage(p), p \in offered, NEW n, DOMAIN n = RequestFields,
         StoredName(n.name), FromPackage(n, p, claimNameOf(n.name)), NEW asked
  PROVE  ProperUnit(buildActiveUnitFromRequest(n, asked))
<1> DEFINE u == buildActiveUnitFromRequest(n, asked)
<1>1. /\ DOMAIN u = UnitFields /\ DOMAIN u.spec = SpecFields /\ u.name = n.name
      /\ \A f \in SpecFields : u.spec[f] = n[f]
  BY DEF buildActiveUnitFromRequest, UnitFields
<1>2. FromPackage(u.spec, p, claimNameOf(u.name))
  BY <1>1 DEF FromPackage, SpecFields
<1> QED BY <1>1, <1>2 DEF ProperUnit

\* A create request leaves the units alone, or adds one with a new name and a
\* new operation ID.
LEMMA CreateAdds ==
  ASSUME NEW asked, NEW raw, NEW catalog, CreateGPUUnit(asked, raw, catalog)
  PROVE  /\ answer'.status \in Statuses
         /\ \/ units' = units
            \/ \E n \in NormalizeCreateGPUUnitRequest(raw, catalog) :
                 /\ units' = units \cup {buildActiveUnitFromRequest(n, asked)}
                 /\ \A u \in units : u.name # n.name /\ u.operationID # n.operationID
<1>1. ASSUME NEW kind \in {"validation", "notFound", "conflict", "capacity", "other"},
             Refuse(asked, kind)
      PROVE  answer'.status \in Statuses /\ units' = units
  BY <1>1 DEF Refuse, Answer, statusOf, NoAnswer, Statuses
<1>2. ASSUME NEW status \in {200, 201}, NEW us, Answer(asked, status, us)
      PROVE  answer'.status \in Statuses
  BY <1>2 DEF Answer, NoAnswer, Statuses
<1>3. ASSUME NEW us, Answer(asked, statusOf.other, us)
      PROVE  answer'.status \in Statuses
  BY <1>3 DEF Answer, NoAnswer, Statuses, statusOf
<1>4. CASE \E n \in NormalizeCreateGPUUnitRequest(raw, catalog) : CreateNormalized(asked, n)
  <2>1. PICK n \in NormalizeCreateGPUUnitRequest(raw, catalog) : CreateNormalized(asked, n)
    BY <1>4
  <2> DEFINE existing == findExistingGPUUnitOperation(n)
  <2>2. CASE Refuse(asked, "notFound") \/ Refuse(asked, "conflict") \/ Refuse(asked, "capacity")
    BY <1>1, <2>2
  <2>3. CASE Answer(asked, 200, existing.found) /\ UNCHANGED units
    BY <1>2, <2>3
  <2>4. CASE /\ ~existing.conflict /\ existing.found = {}
             /\ units' = units \cup {buildActiveUnitFromRequest(n, asked)}
             /\ \/ Answer(asked, 201, {buildActiveUnitFromRequest(n, asked)})
                \/ Answer(asked, statusOf.other, {})
    <3>1. answer'.status \in Statuses
      BY <1>2, <1>3, <2>4
    <3>2. /\ {u \in units : u.operationID = n.operationID} = {}
          /\ {u \in units : u.name = n.name} = {}
      BY <2>4 DEF findExistingGPUUnitOperation
    <3> QED BY <2>4, <3>1, <3>2
  <2> HIDE DEF existing
  <2>5. CreateNormalized(asked, n) =>
          \/ Refuse(asked, "notFound") \/ Refuse(asked, "conflict")
          \/ Answer(asked, 200, existing.found) /\ UNCHANGED units
          \/ ~existing.conflict /\ existing.found = {} /\ createDRAAllocatedGPUUnit(asked, n)
    BY DEF CreateNormalized, existing
  <2> QED BY <2>1, <2>2, <2>3, <2>4, <2>5 DEF createDRAAllocatedGPUUnit
<1> QED BY <1>1, <1>4 DEF CreateGPUUnit

\* An update leaves names, operations and resources alone.
LEMMA UpdateKeeps ==
  ASSUME NEW u \in units, ProperUnit(u), NEW req, UpdateNormalized(u, req)
  PROVE  /\ answer'.status \in Statuses
         /\ \/ units' = units
            \/ \E s \in updatedSpecs(u.spec, req) :
                 /\ units' = (units \ {u}) \cup {[u EXCEPT !.spec = s]}
                 /\ DOMAIN s = SpecFields
                 /\ \A f \in {"packageID", "fields", "gpu", "allocation"} : s[f] = u.spec[f]
<1>1. ASSUME NEW kind \in {"validation", "notFound", "conflict"}, Refuse({}, kind)
      PROVE  answer'.status \in Statuses /\ units' = units
  BY <1>1 DEF Refuse, Answer, NoAnswer, Statuses
<1>2. CASE \E s \in updatedSpecs(u.spec, req) :
             /\ IF s = u.spec THEN UNCHANGED units
                ELSE units' = (units \ {u}) \cup {[u EXCEPT !.spec = s]}
             /\ Answer({}, 200, {}) \/ Answer({}, statusOf.other, {})
  <2>1. PICK s \in updatedSpecs(u.spec, req) :
             /\ IF s = u.spec THEN UNCHANGED units
                ELSE units' = (units \ {u}) \cup {[u EXCEPT !.spec = s]}
             /\ Answer({}, 200, {}) \/ Answer({}, statusOf.other, {})
    BY <1>2
  <2>2. answer'.status \in Statuses
    BY <2>1 DEF Answer, NoAnswer, Statuses
  <2>3. DOMAIN u.spec = SpecFields
    BY DEF ProperUnit
  <2>4. PICK template, access :
          s = [u.spec EXCEPT !.image = Default(req.image, @), !.template = template,
                 !.access = access, !.ssh = Given(req.ssh, @),
                 !.serverless = Given(req.serverless, @),
                 !.storageMounts = Given(req.storageMounts, @)]
    BY DEF updatedSpecs
  <2>5. /\ DOMAIN s = SpecFields
        /\ \A f \in {"packageID", "fields", "gpu", "allocation"} : s[f] = u.spec[f]
    BY <2>3, <2>4 DEF SpecFields
  <2> QED BY <2>1, <2>2, <2>5
<1> QED BY <1>1, <1>2 DEF UpdateNormalized

\* The template of a worker is one of the units found for its request ID.
LEMMA TemplateExists ==
  ASSUME NEW us, us # {}, \A u \in us : NameOrder[u.name.word] \in Nat
  PROVE  templateUnit(us) \in us
<1> DEFINE own == {u \in us : ~isActivatorManagedWorker(u)}
           from == IF own = {} THEN us ELSE own
           rank(u) == NameOrder[u.name.word]
<1>1. from # {} /\ from \subseteq us
  OBVIOUS
<1> HIDE DEF from
<1>2. \E t \in from : \A u \in from : rank(t) <= rank(u)
  <2> DEFINE T == {rank(u) : u \in from}
  <2>1. T # {} /\ T \subseteq Nat
    BY <1>1
  <2> HIDE DEF T
  <2>2. PICK x \in T : \A y \in T : x <= y
    BY <2>1, LeastNumber
  <2> QED BY <2>2 DEF T
<1>3. templateUnit(us) = CHOOSE t \in from : \A u \in from : rank(t) <= rank(u)
  BY DEF templateUnit, from
<1>4. templateUnit(us) \in from
  BY <1>2, <1>3
<1> QED BY <1>1, <1>4

\* A unit's clone asks for the unit's package.
LEMMA ClonesAreProper ==
  ASSUME CatalogInv, NEW t \in units, ProperUnit(t), NEW i \in Invocations,
         t.spec.serverless.requestID = i.requestID
  PROVE  ProperRequest(buildCreateRequest(t, i))
<1> DEFINE s == [t.spec EXCEPT !.allocation.claimName = Blank]
           r == buildCreateRequest(t, i)
<1>1. PICK p \in offered : FromPackage(t.spec, p, claimNameOf(t.name))
  BY DEF ProperUnit
<1>2. NormalPackage(p)
  BY DEF CatalogInv
<1>3. s = [t.spec EXCEPT !.allocation = [t.spec.allocation EXCEPT !.claimName = Blank]]
  OBVIOUS
<1>4. DOMAIN t.spec = SpecFields
  BY DEF ProperUnit
<1>5. s.allocation = [t.spec.allocation EXCEPT !.claimName = Blank]
  BY <1>3, <1>4 DEF SpecFields
<1>6. [t.spec.allocation EXCEPT !.claimName = Blank] = [p.allocation EXCEPT !.claimName = Blank]
  BY <1>1 DEF FromPackage
<1>7. \A f \in SpecFields \ {"allocation"} : s[f] = t.spec[f]
  BY <1>3, <1>4
<1> HIDE DEF s
<1>8. r = workerRequest(s, i)
  BY DEF buildCreateRequest, s
<1>9. FromPackage(r, p, Blank)
  BY <1>1, <1>5, <1>6, <1>7, <1>8 DEF FromPackage, workerRequest, SpecFields
<1>10. DOMAIN r = RequestFields
  BY <1>8 DEF workerRequest, RequestFields, SpecFields
<1>11. r.name = Plain(<<"unit">> \o i.requestID.word \o <<"worker", i.suffix>>)
  BY <1>7, <1>8 DEF workerRequest, generatedWorkerStem, SpecFields
<1>12. StoredName(r.name)
  BY <1>11, RequestAssumption DEF StoredName, Texts, Forms, Plain, Text
<1> QED BY <1>9, <1>10, <1>12 DEF ProperRequest

-----------------------------------------------------------------------------
(* The invariant.                                                          *)

LEMMA InitRequests == Init => RequestsInv
<1> SUFFICES ASSUME Init PROVE RequestsInv
  OBVIOUS
<1>1. CatalogInv
  BY CatalogsAreNormal DEF Init, CatalogInv
<1>2. UnitsInv /\ InflightInv
  BY DEF Init, UnitsInv, UniqueUnits, InflightInv
<1>3. OwnInv
  BY RequestAssumption DEF Init, OwnInv, NoAnswer, Statuses
<1> QED BY <1>1, <1>2, <1>3 DEF RequestsInv

\* What was offered stays offered.
LEMMA StillProper ==
  ASSUME offered \subseteq offered'
  PROVE  /\ \A u : ProperUnit(u) => ProperUnit(u)'
         /\ \A r : ProperRequest(r) => ProperRequest(r)'
BY DEF ProperUnit, ProperRequest, FromPackage, StoredName

\* A create keeps names and operations unique and resources a package's.
LEMMA CreateKeepsUnits ==
  ASSUME RequestsInv, NEW asked, NEW raw, NEW catalog, CreateGPUUnit(asked, raw, catalog),
         UNCHANGED offered,
         \A n \in NormalizeCreateGPUUnitRequest(raw, catalog) :
            /\ DOMAIN n = RequestFields /\ StoredName(n.name)
            /\ \E p \in offered : FromPackage(n, p, claimNameOf(n.name))
  PROVE  UnitsInv' /\ answer'.status \in Statuses
<1>1. answer'.status \in Statuses
  BY CreateAdds
<1>2. CASE units' = units
  BY <1>1, <1>2, StillProper DEF RequestsInv, UnitsInv, UniqueUnits
<1>3. ASSUME NEW n \in NormalizeCreateGPUUnitRequest(raw, catalog),
             units' = units \cup {buildActiveUnitFromRequest(n, asked)},
             \A u \in units : u.name # n.name /\ u.operationID # n.operationID
      PROVE  UnitsInv'
  <2> DEFINE new == buildActiveUnitFromRequest(n, asked)
  <2>1. ProperUnit(new)
    <3>1. PICK p \in offered : FromPackage(n, p, claimNameOf(n.name))
      OBVIOUS
    <3>2. NormalPackage(p)
      BY DEF RequestsInv, CatalogInv
    <3> QED BY <3>1, <3>2, StoredRequests
  <2>2. new.name = n.name /\ new.operationID = n.operationID
    BY DEF buildActiveUnitFromRequest
  <2> HIDE DEF new
  <2>3. \A u \in units' : ProperUnit(u)'
    BY <1>3, <2>1, StillProper DEF RequestsInv, UnitsInv, new
  <2>4. UniqueUnits(units')
    BY <1>3, <2>2 DEF RequestsInv, UnitsInv, UniqueUnits, new
  <2> QED BY <2>3, <2>4 DEF UnitsInv, UniqueUnits
<1> QED BY <1>1, <1>2, <1>3, CreateAdds

\* Every request of the API that is accepted has a package of its catalogue.
LEMMA APIRequests ==
  ASSUME CatalogInv, NEW q \in CreateRequests, NEW n \in NormalizeCreateGPUUnitRequest(q, catalogue)
  PROVE  /\ DOMAIN n = RequestFields /\ StoredName(n.name)
         /\ \E p \in offered : FromPackage(n, p, claimNameOf(n.name))
<1>1. PICK req \in packaged(q, catalogue), name \in NormalizeName(q.name) :
        n \in normalizedParts(req, name)
  BY DEF NormalizeCreateGPUUnitRequest
<1>2. StoredName(name)
  BY RequestAssumption, NamesAreStored
<1>3. PICK p \in catalogue : FromPackage(req, p, Blank)
  BY RequestAssumption, ExpandedRequests DEF CatalogInv, RequestFields
<1>4. NormalPackage(p) /\ p \in offered
  BY DEF CatalogInv
<1> QED BY <1>1, <1>2, <1>3, <1>4, PartsKeepPackage

\* And so has every request of the activator.
LEMMA WorkerRequests ==
  ASSUME CatalogInv, NEW r, ProperRequest(r), NEW n \in NormalizeCreateGPUUnitRequest(r, {})
  PROVE  /\ DOMAIN n = RequestFields /\ StoredName(n.name)
         /\ \E p \in offered : FromPackage(n, p, claimNameOf(n.name))
<1>1. PICK req \in packaged(r, {}), name \in NormalizeName(r.name) : n \in normalizedParts(req, name)
  BY DEF NormalizeCreateGPUUnitRequest
<1>2. StoredName(name)
  BY NamesAreStored DEF ProperRequest, StoredName
<1>3. PICK p \in offered : FromPackage(r, p, Blank)
  BY DEF ProperRequest
<1>4. NormalPackage(p)
  BY DEF CatalogInv
<1>5. FromPackage(req, p, Blank)
  BY <1>3, <1>4, ClonedRequests DEF ProperRequest
<1> QED BY <1>1, <1>2, <1>4, <1>5, PartsKeepPackage

LEMMA SameUnits ==
  ASSUME RequestsInv, UNCHANGED <<units, offered>>
  PROVE  UnitsInv'
BY StillProper DEF RequestsInv, UnitsInv, UniqueUnits

LEMMA SameRequest ==
  ASSUME RequestsInv, offered \subseteq offered', inflight' = inflight
  PROVE  InflightInv'
BY StillProper DEF RequestsInv, InflightInv

LEMMA SameCatalog ==
  ASSUME RequestsInv, UNCHANGED <<catalogue, offered>>
  PROVE  CatalogInv'
BY DEF RequestsInv, CatalogInv, NormalPackage

\* A refusal changes no unit.
LEMMA Refused ==
  ASSUME NEW asked, NEW kind \in {"validation", "notFound", "conflict", "capacity", "other"},
         Refuse(asked, kind)
  PROVE  answer'.status \in Statuses /\ units' = units
BY DEF Refuse, Answer, statusOf, NoAnswer, Statuses

LEMMA Edited ==
  ASSUME RequestsInv, Edit
  PROVE  edits' \in 0..MaxEdits
BY RequestAssumption DEF Edit, RequestsInv, OwnInv

LEMMA NextRequests == RequestsInv /\ [Next]_vars => RequestsInv'
<1> SUFFICES ASSUME RequestsInv, [Next]_vars PROVE RequestsInv'
  OBVIOUS
<1>1. ASSUME NEW c \in Catalogues, ConfigureRuntimePackages(c) PROVE RequestsInv'
  <2>1. PICK n \in NormalizedCatalog(c) : catalogue' = n /\ offered' = offered \cup n
    BY <1>1 DEF ConfigureRuntimePackages
  <2>2. CatalogInv'
    BY <2>1, CatalogsAreNormal DEF RequestsInv, CatalogInv, NormalPackage
  <2>3. UnitsInv'
    BY <1>1, <2>1, StillProper DEF ConfigureRuntimePackages, RequestsInv, UnitsInv, UniqueUnits
  <2>4. InflightInv'
    BY <1>1, <2>1, SameRequest DEF ConfigureRuntimePackages
  <2>5. OwnInv'
    BY <1>1, Edited DEF ConfigureRuntimePackages, RequestsInv, OwnInv, NoAnswer, Statuses
  <2> QED BY <2>2, <2>3, <2>4, <2>5 DEF RequestsInv
<1>2. ASSUME NEW q \in CreateRequests, handleCreateGPUUnit(q) PROVE RequestsInv'
  <2>1. UnitsInv' /\ answer'.status \in Statuses
    BY <1>2, APIRequests, CreateKeepsUnits DEF handleCreateGPUUnit, RequestsInv
  <2> QED BY <1>2, <2>1, SameCatalog, SameRequest DEF handleCreateGPUUnit, RequestsInv, OwnInv
<1>3. ASSUME NEW name \in Names, NEW q \in UpdateRequests, handleUpdateGPUUnit(name, q)
      PROVE  RequestsInv'
  <2>1. UnitsInv' /\ answer'.status \in Statuses
    <3>1. CASE \E kind \in {"validation", "notFound", "other"} : Refuse({}, kind)
      BY <1>3, <3>1, Refused, SameUnits DEF handleUpdateGPUUnit
    <3>2. ASSUME NEW u \in units, NEW req, UpdateNormalized(u, req)
          PROVE  UnitsInv' /\ answer'.status \in Statuses
      <4>1. ProperUnit(u)
        BY DEF RequestsInv, UnitsInv
      <4>2. CASE units' = units
        BY <1>3, <3>2, <4>1, <4>2, UpdateKeeps, SameUnits DEF handleUpdateGPUUnit
      <4>3. ASSUME NEW s, units' = (units \ {u}) \cup {[u EXCEPT !.spec = s]},
                   DOMAIN s = SpecFields,
                   \A f \in {"packageID", "fields", "gpu", "allocation"} : s[f] = u.spec[f]
            PROVE  UnitsInv'
        <5> DEFINE new == [u EXCEPT !.spec = s]
        <5>1. /\ DOMAIN new = UnitFields /\ new.spec = s
              /\ new.name = u.name /\ new.operationID = u.operationID
          BY <4>1 DEF ProperUnit, UnitFields
        <5> HIDE DEF new
        <5>2. ProperUnit(new)
          <6>1. PICK p \in offered : FromPackage(u.spec, p, claimNameOf(u.name))
            BY <4>1 DEF ProperUnit
          <6>2. FromPackage(s, p, claimNameOf(u.name))
            BY <4>3, <6>1 DEF FromPackage
          <6>3. FromPackage(new.spec, p, claimNameOf(new.name))
            BY <5>1, <6>2
          <6>4. StoredName(new.name)
            BY <4>1, <5>1 DEF ProperUnit
          <6>5. DOMAIN new.spec = SpecFields
            BY <4>3, <5>1
          <6> QED BY <5>1, <6>3, <6>4, <6>5 DEF ProperUnit
        <5>3. \A v \in units' : ProperUnit(v)'
          BY <1>3, <4>3, <5>2, StillProper DEF handleUpdateGPUUnit, RequestsInv, UnitsInv, new
        <5>4. UniqueUnits(units')
          <6>1. units' = (units \ {u}) \cup {new}
            BY <4>3 DEF new
          <6>2. \A v \in units \ {u} : v.name # new.name /\ v.operationID # new.operationID
            BY <5>1 DEF RequestsInv, UnitsInv, UniqueUnits
          <6> QED BY <6>1, <6>2 DEF RequestsInv, UnitsInv, UniqueUnits
        <5> QED BY <5>3, <5>4 DEF UnitsInv, UniqueUnits
      <4> QED BY <3>2, <4>1, <4>2, <4>3, UpdateKeeps
    <3> QED BY <1>3, <3>1, <3>2 DEF handleUpdateGPUUnit, unitsNamed
  <2>2. edits' \in 0..MaxEdits
    BY <1>3, Edited DEF handleUpdateGPUUnit
  <2> QED BY <1>3, <2>1, <2>2, SameCatalog, SameRequest DEF handleUpdateGPUUnit, RequestsInv, OwnInv
<1>4. ASSUME NEW name \in Names, handleDeleteGPUUnit(name) PROVE RequestsInv'
  <2>1. units' \subseteq units /\ answer'.status \in Statuses
    <3>1. CASE \E kind \in {"validation", "notFound", "other"} : Refuse({}, kind)
      BY <3>1, Refused
    <3>2. CASE units' \subseteq units /\ Answer({}, 204, {})
      BY <3>2 DEF Answer, NoAnswer, Statuses
    <3> QED BY <1>4, <3>1, <3>2 DEF handleDeleteGPUUnit
  <2>2. UnitsInv'
    BY <1>4, <2>1, StillProper DEF handleDeleteGPUUnit, RequestsInv, UnitsInv, UniqueUnits
  <2> QED BY <1>4, <2>1, <2>2, SameCatalog, SameRequest DEF handleDeleteGPUUnit, RequestsInv, OwnInv
<1>5. ASSUME NEW s \in StorageNames, handleDeleteGPUStorage(s) \/ handleCreateGPUStorage(s)
      PROVE  RequestsInv'
  <2>1. units' = units /\ answer'.status \in Statuses /\ storages' \subseteq StorageNames
    <3>1. CASE (\E kind \in {"notFound", "conflict"} : Refuse({}, kind)) /\ UNCHANGED storages
      BY <3>1, Refused DEF RequestsInv, OwnInv
    <3>2. CASE /\ storages' \in {storages \ {s}, storages \cup {s}}
               /\ Answer({}, 204, {}) \/ Answer({}, 201, {})
               /\ UNCHANGED units
      BY <3>2 DEF Answer, NoAnswer, Statuses, RequestsInv, OwnInv
    <3> QED BY <1>5, <3>1, <3>2 DEF handleDeleteGPUStorage, handleCreateGPUStorage
  <2>2. edits' \in 0..MaxEdits /\ UNCHANGED <<catalogue, offered, inflight>>
    BY <1>5, Edited DEF handleDeleteGPUStorage, handleCreateGPUStorage
  <2> QED BY <2>1, <2>2, SameUnits, SameCatalog, SameRequest DEF RequestsInv, OwnInv
<1>6. ASSUME NEW i \in Invocations, acquireWorker(i) PROVE RequestsInv'
  <2> DEFINE us == listServerlessUnits(i.requestID)
             t == templateUnit(us)
  <2>1. us # {} /\ us \subseteq units /\ \A u \in us : NameOrder[u.name.word] \in Nat
    BY <1>6, NameOrderAssumption
       DEF acquireWorker, listServerlessUnits, RequestsInv, UnitsInv, ProperUnit, StoredName
  <2>2. t \in us
    BY <2>1, TemplateExists
  <2>3. t.spec.serverless.requestID = i.requestID
    BY <2>2 DEF listServerlessUnits
  <2>4. ProperRequest(buildCreateRequest(t, i))
    BY <2>1, <2>2, <2>3, ClonesAreProper DEF RequestsInv, UnitsInv
  <2> HIDE DEF t
  <2>5. /\ inflight' = {[req |-> buildCreateRequest(t, i), from |-> t.spec]}
        /\ answer' = NoAnswer /\ UNCHANGED <<units, storages, catalogue, offered, edits>>
    BY <1>6 DEF acquireWorker, t
  <2>6. InflightInv'
    BY <2>4, <2>5, StillProper DEF InflightInv
  <2> QED BY <2>5, <2>6, SameUnits, SameCatalog DEF RequestsInv, OwnInv, NoAnswer, Statuses
<1>7. ASSUME createWorker PROVE RequestsInv'
  <2>1. PICK c \in inflight : CreateGPUUnit({}, c.req, {})
    BY <1>7 DEF createWorker
  <2>2. ProperRequest(c.req)
    BY DEF RequestsInv, InflightInv
  <2>3. inflight' = {} /\ UNCHANGED <<storages, catalogue, offered, edits>>
    BY <1>7 DEF createWorker
  <2>4. UnitsInv' /\ answer'.status \in Statuses
    BY <2>1, <2>2, <2>3, WorkerRequests, CreateKeepsUnits DEF RequestsInv
  <2> QED BY <2>3, <2>4, SameCatalog DEF RequestsInv, OwnInv, InflightInv
<1>8. CASE UNCHANGED vars
  BY <1>8, SameUnits, SameCatalog, SameRequest DEF vars, RequestsInv, OwnInv
<1> QED BY <1>1, <1>2, <1>3, <1>4, <1>5, <1>6, <1>7, <1>8 DEF Next

LEMMA RequestsInvariant == Spec => []RequestsInv
BY InitRequests, NextRequests, PTL DEF Spec

-----------------------------------------------------------------------------
(* What is stored can be used.                                             *)

\* Whatever part of a request is accepted comes out normal.
SoundBody(r) ==
  /\ \A name : \A s \in NormalizeGPUUnitSSH(name, r.ssh) : NormalSSH(s)
  /\ \A s \in NormalizeGPUUnitServerless(r.serverless) : NormalServerless(s)
  /\ \A m \in NormalizeGPUUnitStorageMounts(r.storageMounts) : NormalizeGPUUnitStorageMounts(m) = {m}

\* The parts of a normalised request, from those of the request.
MadeFrom(n, r) ==
  /\ n.image = TrimSpace(r.image)
  /\ n.template \in NormalizeGPUUnitTemplate(r.template)
  /\ n.access \in NormalizeGPUUnitAccess(r.access, n.template.ports)
  /\ n.ssh \in NormalizeGPUUnitSSH(n.name, r.ssh)
  /\ n.serverless \in NormalizeGPUUnitServerless(r.serverless)
  /\ n.storageMounts \in NormalizeGPUUnitStorageMounts(r.storageMounts)

\* A body of JSON is sound.
LEMMA BodiesAreSound ==
  ASSUME NEW r, SSHBody(r.ssh), ServerlessBody(r.serverless), MountList(r.storageMounts)
  PROVE  SoundBody(r)
<1>1. \A name : \A s \in NormalizeGPUUnitSSH(name, r.ssh) : NormalSSH(s)
  BY SSHNormal DEF SSHBody
<1>2. HasServerlessFields(r.serverless)
  BY ServerlessBodies
<1>3. \A s \in NormalizeGPUUnitServerless(r.serverless) : NormalServerless(s)
  BY <1>2, ServerlessNormal
<1>4. \A m \in NormalizeGPUUnitStorageMounts(r.storageMounts) : NormalizeGPUUnitStorageMounts(m) = {m}
  BY MountsStable
<1> QED BY <1>1, <1>3, <1>4 DEF SoundBody

\* What is stored is sound as a request too: that is what a clone sends.
LEMMA NormalIsSound ==
  ASSUME NEW r, NormalSSH(r.ssh), NormalServerless(r.serverless),
         NormalizeGPUUnitStorageMounts(r.storageMounts) = {r.storageMounts}
  PROVE  SoundBody(r)
<1>1. \A name : \A s \in NormalizeGPUUnitSSH(name, r.ssh) : NormalSSH(s)
  BY SSHStable
<1>2. \A s \in NormalizeGPUUnitServerless(r.serverless) : NormalServerless(s)
  BY ServerlessStable
<1> QED BY <1>1, <1>2 DEF SoundBody

\* A sound request is normalised to a normal spec.
LEMMA MadeIsNormal ==
  ASSUME NEW r, SoundBody(r), NEW n, MadeFrom(n, r)
  PROVE  NormalSpec(n)
<1>1. /\ NormalizeGPUUnitTemplate(n.template) = {n.template}
      /\ \A i \in DOMAIN n.template.ports : IsName(n.template.ports[i].name)
  BY TemplateStable DEF MadeFrom
<1>2. NormalizeGPUUnitAccess(n.access, n.template.ports) = {n.access}
  BY <1>1, AccessStable DEF MadeFrom
<1>3. TrimSpace(n.image) = n.image
  BY Trimmed DEF MadeFrom
<1>4. NormalSSH(n.ssh)
  BY DEF SoundBody, MadeFrom
<1>5. NormalServerless(n.serverless)
  BY DEF SoundBody, MadeFrom
<1>6. NormalizeGPUUnitStorageMounts(n.storageMounts) = {n.storageMounts}
  BY DEF SoundBody, MadeFrom
<1> QED BY <1>1, <1>2, <1>3, <1>4, <1>5, <1>6 DEF NormalSpec

\* Only the resources of a request come from its package.
LEMMA PackagedKeeps ==
  ASSUME NEW q, DOMAIN q = RequestFields, NEW catalog, NEW req \in packaged(q, catalog)
  PROVE  \A f \in RequestFields \ {"packageID", "fields", "gpu", "allocation"} : req[f] = q[f]
<1>1. \/ req \in ExpandRuntimePackage(q, catalog)
      \/ req = [q EXCEPT !.packageID = ToLower(TrimSpace(q.packageID))]
  BY DEF packaged, Accept
<1>2. CASE req \in ExpandRuntimePackage(q, catalog)
  <2>1. PICK p : req = [q EXCEPT !.packageID = p.id, !.fields = p.fields, !.gpu = p.gpu,
                                 !.allocation = p.allocation]
    BY <1>2 DEF ExpandRuntimePackage
  <2> QED BY <2>1
<1>3. CASE req = [q EXCEPT !.packageID = ToLower(TrimSpace(q.packageID))]
  BY <1>3
<1> QED BY <1>1, <1>2, <1>3

\* normalizedParts takes each part from the part of the request.
LEMMA PartsAreMade ==
  ASSUME NEW req, NEW name, NEW n \in normalizedParts(req, name)
  PROVE  n.name = name /\ n.operationID = TrimSpace(req.operationID) /\ MadeFrom(n, req)
<1>1. PICK t \in NormalizeGPUUnitTemplate(req.template) : n \in requestParts(req, name, t)
  BY DEF normalizedParts
<1> DEFINE made(al, ac, ss, se, m) ==
             [operationID |-> TrimSpace(req.operationID), name |-> name,
              packageID |-> req.packageID, fields |-> trimmedFields(req),
              image |-> TrimSpace(req.image), gpu |-> req.gpu, allocation |-> al,
              template |-> t, access |-> ac, ssh |-> ss, serverless |-> se, storageMounts |-> m]
<1>2. PICK al \in NormalizeDRAAllocation(name, req.allocation),
           ac \in NormalizeGPUUnitAccess(req.access, t.ports),
           ss \in NormalizeGPUUnitSSH(name, req.ssh),
           se \in NormalizeGPUUnitServerless(req.serverless),
           m \in NormalizeGPUUnitStorageMounts(req.storageMounts) : n = made(al, ac, ss, se, m)
  BY <1>1 DEF requestParts
<1>3. /\ n.name = name /\ n.operationID = TrimSpace(req.operationID)
      /\ n.image = TrimSpace(req.image) /\ n.template = t
      /\ n.access = ac /\ n.ssh = ss /\ n.serverless = se /\ n.storageMounts = m
  BY <1>2
<1> HIDE DEF made
<1> QED BY <1>1, <1>2, <1>3 DEF MadeFrom

\* A request that is accepted, from the one that was sent.
LEMMA RequestsAreMade ==
  ASSUME NEW q, DOMAIN q = RequestFields, NEW catalog,
         NEW n \in NormalizeCreateGPUUnitRequest(q, catalog)
  PROVE  /\ n.name = ToLower(TrimSpace(q.name)) /\ IsName(n.name)
         /\ n.operationID = TrimSpace(q.operationID)
         /\ MadeFrom(n, q)
<1>1. PICK req \in packaged(q, catalog), name \in NormalizeName(q.name) : n \in normalizedParts(req, name)
  BY DEF NormalizeCreateGPUUnitRequest
<1>2. name = ToLower(TrimSpace(q.name)) /\ IsName(name)
  BY DEF NormalizeName, Accept
<1>3. n.name = name /\ n.operationID = TrimSpace(req.operationID) /\ MadeFrom(n, req)
  BY <1>1, PartsAreMade
<1>4. /\ req.operationID = q.operationID /\ req.image = q.image /\ req.template = q.template
      /\ req.access = q.access /\ req.ssh = q.ssh /\ req.serverless = q.serverless
      /\ req.storageMounts = q.storageMounts
  BY PackagedKeeps DEF RequestFields, SpecFields
<1> QED BY <1>2, <1>3, <1>4 DEF MadeFrom

\* Whatever an update points to comes out normal.
SoundUpdate(r) ==
  /\ \A name : \A x \in r.ssh : \A s \in NormalizeGPUUnitSSH(name, x) : NormalSSH(s)
  /\ \A x \in r.serverless : \A s \in NormalizeGPUUnitServerless(x) : NormalServerless(s)
  /\ \A x \in r.storageMounts : \A m \in NormalizeGPUUnitStorageMounts(x) :
       NormalizeGPUUnitStorageMounts(m) = {m}

NormalUpdate(r) ==
  /\ TrimSpace(r.image) = r.image
  /\ NormalizeGPUUnitTemplate(r.template) = {r.template}
  /\ \A s \in r.ssh : NormalSSH(s)
  /\ \A s \in r.serverless : NormalServerless(s)
  /\ \A m \in r.storageMounts : NormalizeGPUUnitStorageMounts(m) = {m}

\* A normalised update is normal, and stays sound for the second normalisation.
LEMMA NormalUpdates ==
  ASSUME NEW name, NEW req, SoundUpdate(req), NEW r \in NormalizeUpdateGPUUnitRequest(name, req)
  PROVE  NormalUpdate(r) /\ SoundUpdate(r)
<1> DEFINE made(t, ss, se, m) ==
             [image |-> TrimSpace(req.image), template |-> t,
              access |-> [primaryPort |-> TrimSpace(req.access.primaryPort),
                          scheme |-> ToLower(TrimSpace(req.access.scheme))],
              ssh |-> ss, serverless |-> se, storageMounts |-> m]
<1>1. PICK t \in NormalizeGPUUnitTemplate(req.template), ss \in pointedSSH(name, req.ssh),
           se \in pointedServerless(req.serverless), m \in pointedMounts(req.storageMounts) :
        r = made(t, ss, se, m)
  BY DEF NormalizeUpdateGPUUnitRequest
<1>2. /\ r.image = TrimSpace(req.image) /\ r.template = t /\ r.ssh = ss /\ r.serverless = se
      /\ r.storageMounts = m
  BY <1>1
<1>3. \A s \in ss : \E x \in req.ssh : s \in NormalizeGPUUnitSSH(name, x)
  BY <1>1 DEF pointedSSH, Pointed
<1>4. \A s \in se : \E x \in req.serverless : s \in NormalizeGPUUnitServerless(x)
  BY <1>1 DEF pointedServerless, Pointed
<1>5. \A s \in m : \E x \in req.storageMounts : s \in NormalizeGPUUnitStorageMounts(x)
  BY <1>1 DEF pointedMounts, Pointed
<1>6. \A s \in r.ssh : NormalSSH(s)
  BY <1>2, <1>3 DEF SoundUpdate
<1>7. \A s \in r.serverless : NormalServerless(s)
  BY <1>2, <1>4 DEF SoundUpdate
<1>8. \A s \in r.storageMounts : NormalizeGPUUnitStorageMounts(s) = {s}
  BY <1>2, <1>5 DEF SoundUpdate
<1>9. TrimSpace(r.image) = r.image /\ NormalizeGPUUnitTemplate(r.template) = {r.template}
  BY <1>2, Trimmed, TemplateStable
<1>10. NormalUpdate(r)
  BY <1>6, <1>7, <1>8, <1>9 DEF NormalUpdate
<1>11. \A n : \A x \in r.ssh : \A s \in NormalizeGPUUnitSSH(n, x) : NormalSSH(s)
  BY <1>6, SSHStable
<1>12. \A x \in r.serverless : \A s \in NormalizeGPUUnitServerless(x) : NormalServerless(s)
  BY <1>7, ServerlessStable
<1> QED BY <1>8, <1>10, <1>11, <1>12 DEF SoundUpdate

\* An update leaves a normal spec.
LEMMA UpdatedIsNormal ==
  ASSUME NEW spec, DOMAIN spec = SpecFields, NormalSpec(spec), NEW req, NormalUpdate(req),
         NEW s \in updatedSpecs(spec, req)
  PROVE  NormalSpec(s)
<1> DEFINE t == IF IsZeroGPUUnitTemplate(req.template) THEN spec.template ELSE req.template
<1>1. PICK access \in updatedAccess(spec, req, t.ports) :
        s = [spec EXCEPT !.image = Default(req.image, @), !.template = t, !.access = access,
               !.ssh = Given(req.ssh, @), !.serverless = Given(req.serverless, @),
               !.storageMounts = Given(req.storageMounts, @)]
  BY DEF updatedSpecs
<1>2. NormalizeGPUUnitTemplate(t) = {t}
  BY DEF NormalSpec, NormalUpdate
<1> HIDE DEF t
<1>3. \A i \in DOMAIN t.ports : IsName(t.ports[i].name)
  BY <1>2, TemplateStable
<1>4. \E x : access \in NormalizeGPUUnitAccess(x, t.ports)
  BY DEF updatedAccess
<1>5. NormalizeGPUUnitAccess(access, t.ports) = {access}
  BY <1>3, <1>4, AccessStable
<1>6. \A p, old : Given(p, old) = old \/ Given(p, old) \in p
  BY DEF Given
<1>7. /\ s.image = Default(req.image, spec.image) /\ s.template = t /\ s.access = access
      /\ s.ssh = Given(req.ssh, spec.ssh) /\ s.serverless = Given(req.serverless, spec.serverless)
      /\ s.storageMounts = Given(req.storageMounts, spec.storageMounts)
  BY <1>1 DEF SpecFields
<1>8. TrimSpace(s.image) = s.image
  BY <1>7 DEF Default, NormalSpec, NormalUpdate
<1>9. NormalSSH(s.ssh)
  BY <1>6, <1>7 DEF NormalSpec, NormalUpdate
<1>10. NormalServerless(s.serverless)
  BY <1>6, <1>7 DEF NormalSpec, NormalUpdate
<1>11. NormalizeGPUUnitStorageMounts(s.storageMounts) = {s.storageMounts}
  <2>1. CASE s.storageMounts = spec.storageMounts
    BY <2>1 DEF NormalSpec
  <2>2. CASE s.storageMounts \in req.storageMounts
    BY <2>2 DEF NormalUpdate
  <2> QED BY <1>6, <1>7, <2>1, <2>2
<1> QED BY <1>2, <1>5, <1>7, <1>8, <1>9, <1>10, <1>11 DEF NormalSpec

\* A name that fits gives the ssh client a valid name.
LEMMA UsableNames ==
  ASSUME NEW t \in Texts, IsName(t), ClientNameFits(t.word)
  PROVE  UsableName(t)
<1> DEFINE w == <<"ssh", "runtime-instance">> \o t.word
<1>1. t.word \in Seq(STRING) /\ t.form = "plain" /\ t.word \notin Malformed
  BY DEF Texts, IsName
<1>2. clientNameOf(t) = Plain(w) /\ clientNameOf(Plain(t.word)) = Plain(w)
  BY DEF clientNameOf, Plain, Text
<1>3. w \notin Malformed
  <2>1. clientNameOf(Plain(t.word)).word \notin Malformed
    BY <1>1 DEF ClientNameFits
  <2>2. clientNameOf(Plain(t.word)).word = w
    <3> HIDE DEF w
    <3> QED BY <1>2 DEF Plain, Text
  <2> QED BY <2>1, <2>2
<1>4. Len(w) = 2 + Len(t.word)
  BY <1>1
<1>5. w # <<>>
  <2>1. Len(w) \in Nat /\ Len(w) # 0
    BY <1>1, <1>4
  <2> HIDE DEF w
  <2> QED BY <2>1
<1> HIDE DEF w
<1> QED BY <1>2, <1>3, <1>5 DEF UsableName, IsName, Plain, Text, Blank

\* The unit has the parts of the request it is made from.
LEMMA StoredIsNormal ==
  ASSUME NEW n, NormalSpec(n), NEW asked
  PROVE  LET u == buildActiveUnitFromRequest(n, asked)
         IN  NormalSpec(u.spec) /\ u.name = n.name
<1> DEFINE u == buildActiveUnitFromRequest(n, asked)
<1>1. u.name = n.name /\ u.spec = [f \in SpecFields |-> n[f]]
  BY DEF buildActiveUnitFromRequest
<1> HIDE DEF u
<1>2. \A f \in ClonedParts : u.spec[f] = n[f]
  BY <1>1 DEF ClonedParts, SpecFields
<1>3. /\ u.spec.image = n.image /\ u.spec.template = n.template /\ u.spec.access = n.access
      /\ u.spec.ssh = n.ssh /\ u.spec.serverless = n.serverless
      /\ u.spec.storageMounts = n.storageMounts
  BY <1>2 DEF ClonedParts
<1>4. NormalSpec(u.spec)
  BY <1>3 DEF NormalSpec
<1> QED BY <1>1, <1>4 DEF u

\* A create whose results are normal keeps the units normal.
LEMMA CreateKeepsNormal ==
  ASSUME NormalUnits, NEW asked, NEW raw, NEW catalog, CreateGPUUnit(asked, raw, catalog),
         \A n \in NormalizeCreateGPUUnitRequest(raw, catalog) : NormalSpec(n) /\ UsableName(n.name)
  PROVE  NormalUnits'
<1>1. CASE units' = units
  BY <1>1 DEF NormalUnits
<1>2. ASSUME NEW n \in NormalizeCreateGPUUnitRequest(raw, catalog),
             units' = units \cup {buildActiveUnitFromRequest(n, asked)}
      PROVE  NormalUnits'
  <2> DEFINE new == buildActiveUnitFromRequest(n, asked)
  <2>1. NormalSpec(new.spec) /\ new.name = n.name
    BY StoredIsNormal
  <2> HIDE DEF new
  <2>2. units' = units \cup {new}
    BY <1>2 DEF new
  <2> QED BY <2>1, <2>2 DEF NormalUnits
<1> QED BY <1>1, <1>2, CreateAdds

\* Every request of the API that is accepted comes out normal.
LEMMA APIRequestsAreNormal ==
  ASSUME NEW q \in CreateRequests, NEW catalog, NEW n \in NormalizeCreateGPUUnitRequest(q, catalog)
  PROVE  NormalSpec(n) /\ UsableName(n.name)
<1>1. DOMAIN q = RequestFields /\ SoundBody(q)
  BY RequestAssumption, BodiesAreSound DEF RequestFields
<1>2. n.name = ToLower(TrimSpace(q.name)) /\ IsName(n.name) /\ MadeFrom(n, q)
  BY <1>1, RequestsAreMade
<1>3. n.name \in Texts /\ n.name.word = q.name.word
  BY <1>2, RequestAssumption, TextsTrimmed
<1>4. ClientNameFits(n.name.word)
  BY <1>3, RequestAssumption
<1> QED BY <1>1, <1>2, <1>3, <1>4, MadeIsNormal, UsableNames

\* And so does every request of the activator.
LEMMA WorkerRequestsAreNormal ==
  ASSUME NormalClones, NEW c \in inflight, ProperRequest(c.req),
         NEW n \in NormalizeCreateGPUUnitRequest(c.req, {})
  PROVE  NormalSpec(n) /\ UsableName(n.name) /\ MadeFrom(n, c.req)
<1>1. /\ c.req.ssh = c.from.ssh /\ c.req.serverless = c.from.serverless
      /\ c.req.storageMounts = c.from.storageMounts /\ NormalSpec(c.from)
  BY DEF NormalClones, ClonedParts
<1>2. SoundBody(c.req)
  BY <1>1, NormalIsSound DEF NormalSpec
<1>3. n.name = ToLower(TrimSpace(c.req.name)) /\ IsName(n.name) /\ MadeFrom(n, c.req)
  BY RequestsAreMade DEF ProperRequest
<1>4. n.name = c.req.name
  BY <1>3, Trimmed DEF ProperRequest, StoredName
<1> QED BY <1>2, <1>3, <1>4, MadeIsNormal DEF NormalClones

\* The activator asks for what the unit it read has.
LEMMA ClonesAreNormal ==
  ASSUME CatalogInv, NEW t \in units, ProperUnit(t), NormalSpec(t.spec), NEW i \in Invocations,
         t.spec.serverless.requestID = i.requestID
  PROVE  LET r == buildCreateRequest(t, i) IN
         /\ \A f \in ClonedParts : r[f] = t.spec[f]
         /\ IsName(r.name) => UsableName(r.name)
         /\ \E p \in offered : /\ FromPackage(r, p, Blank)
                               /\ FromPackage(t.spec, p, t.spec.allocation.claimName)
<1> DEFINE s == [t.spec EXCEPT !.allocation.claimName = Blank]
           r == buildCreateRequest(t, i)
<1>1. PICK p \in offered : FromPackage(t.spec, p, claimNameOf(t.name))
  BY DEF ProperUnit
<1>2. NormalPackage(p)
  BY DEF CatalogInv
<1>3. s = [t.spec EXCEPT !.allocation = [t.spec.allocation EXCEPT !.claimName = Blank]]
  OBVIOUS
<1>4. DOMAIN t.spec = SpecFields
  BY DEF ProperUnit
<1>5. s.allocation = [t.spec.allocation EXCEPT !.claimName = Blank]
  BY <1>3, <1>4 DEF SpecFields
<1>6. [t.spec.allocation EXCEPT !.claimName = Blank] = [p.allocation EXCEPT !.claimName = Blank]
  BY <1>1 DEF FromPackage
<1>7. \A f \in SpecFields \ {"allocation"} : s[f] = t.spec[f]
  BY <1>3, <1>4
<1>8. r = workerRequest(s, i)
  BY DEF buildCreateRequest
<1> HIDE DEF s, r
<1>9. FromPackage(r, p, Blank)
  BY <1>1, <1>5, <1>6, <1>7, <1>8 DEF FromPackage, workerRequest, SpecFields
<1>10. \A f \in ClonedParts : r[f] = s[f]
  BY <1>8 DEF workerRequest, ClonedParts
<1>11. \A f \in ClonedParts : r[f] = t.spec[f]
  BY <1>7, <1>10 DEF ClonedParts, SpecFields
<1>12. r.name = Plain(<<"unit">> \o i.requestID.word \o <<"worker", i.suffix>>)
  BY <1>7, <1>8 DEF workerRequest, generatedWorkerStem, SpecFields
<1>13. r.name \in Texts /\ ClientNameFits(r.name.word)
  BY <1>12, RequestAssumption DEF Texts, Forms, Plain, Text
<1>14. IsName(r.name) => UsableName(r.name)
  BY <1>13, UsableNames
<1>15. t.spec.allocation.claimName = claimNameOf(t.name)
  BY <1>1, <1>2 DEF FromPackage, NormalPackage
<1> QED BY <1>1, <1>9, <1>11, <1>14, <1>15 DEF r

LEMMA SameClones ==
  ASSUME NormalClones, offered \subseteq offered', inflight' = inflight
  PROVE  NormalClones'
BY DEF NormalClones

\* Nothing is asked of a unit that is gone.
LEMMA FewerUnits ==
  ASSUME NormalUnits, units' \subseteq units
  PROVE  NormalUnits'
BY DEF NormalUnits

\* The handler's normalisation of an update and the service's.
LEMMA UpdatesAreNormal ==
  ASSUME NEW q \in UpdateRequests, NEW name, NEW n,
         NEW once \in NormalizeUpdateGPUUnitRequest(name, q),
         NEW twice \in NormalizeUpdateGPUUnitRequest(n, once)
  PROVE  NormalUpdate(twice)
<1>1. SoundUpdate(q)
  <2>1. \A m : \A x \in q.ssh : \A s \in NormalizeGPUUnitSSH(m, x) : NormalSSH(s)
    BY RequestAssumption, SSHNormal DEF SSHBody
  <2>2. \A x \in q.serverless : \A s \in NormalizeGPUUnitServerless(x) : NormalServerless(s)
    BY RequestAssumption, ServerlessBodies, ServerlessNormal
  <2>3. \A x \in q.storageMounts : \A m \in NormalizeGPUUnitStorageMounts(x) :
          NormalizeGPUUnitStorageMounts(m) = {m}
    BY RequestAssumption, MountsStable
  <2> QED BY <2>1, <2>2, <2>3 DEF SoundUpdate
<1>2. SoundUpdate(once)
  BY <1>1, NormalUpdates
<1> QED BY <1>2, NormalUpdates

NormalInv == NormalUnits /\ NormalClones

\* Every step keeps units and clones normal.
LEMMA NextNormal == RequestsInv /\ NormalInv /\ [Next]_vars => NormalInv'
<1> SUFFICES ASSUME RequestsInv, NormalUnits, NormalClones, [Next]_vars PROVE NormalUnits' /\ NormalClones'
  BY DEF NormalInv
<1>1. ASSUME NEW c \in Catalogues, ConfigureRuntimePackages(c) PROVE NormalUnits' /\ NormalClones'
  BY <1>1, FewerUnits, SameClones DEF ConfigureRuntimePackages
<1>2. ASSUME NEW q \in CreateRequests, handleCreateGPUUnit(q) PROVE NormalUnits' /\ NormalClones'
  BY <1>2, APIRequestsAreNormal, CreateKeepsNormal, SameClones DEF handleCreateGPUUnit
<1>3. ASSUME NEW name \in Names, NEW q \in UpdateRequests, handleUpdateGPUUnit(name, q)
      PROVE  NormalUnits' /\ NormalClones'
  <2> DEFINE once == updatesOf(name, q)
             twice == updatesOfAll(name, once)
  <2>1. \/ \E kind \in {"validation", "notFound", "other"} : Refuse({}, kind)
        \/ \E u \in units, req \in twice : UpdateNormalized(u, req)
    <3>1. unitsNamed(name) \subseteq units
      BY DEF unitsNamed
    <3>2. IF once = {} THEN Refuse({}, "validation")
          ELSE IF unitsNamed(name) = {} THEN Refuse({}, "notFound")
          ELSE IF twice = {} THEN Refuse({}, "validation")
          ELSE \/ \E u \in unitsNamed(name), req \in twice : UpdateNormalized(u, req)
               \/ Refuse({}, "other")
      BY <1>3 DEF handleUpdateGPUUnit
    <3> HIDE DEF once, twice
    <3> QED BY <3>1, <3>2
  <2>2. ASSUME NEW req \in twice PROVE NormalUpdate(req)
    <3>1. PICK r \in once : req \in updatesOf(name, r)
      BY <2>2 DEF updatesOfAll
    <3>2. PICK n \in NormalizeName(name) : req \in NormalizeUpdateGPUUnitRequest(n, r)
      BY <3>1 DEF updatesOf
    <3>3. PICK m \in NormalizeName(name) : r \in NormalizeUpdateGPUUnitRequest(m, q)
      BY <3>1 DEF updatesOf
    <3> QED BY <3>2, <3>3, UpdatesAreNormal
  <2> HIDE DEF once, twice
  <2>3. CASE \E kind \in {"validation", "notFound", "other"} : Refuse({}, kind)
    BY <1>3, <2>3, Refused, FewerUnits, SameClones DEF handleUpdateGPUUnit
  <2>4. ASSUME NEW u \in units, NEW req \in twice, UpdateNormalized(u, req) PROVE NormalUnits'
    <3>1. ProperUnit(u) /\ NormalSpec(u.spec) /\ UsableName(u.name)
      BY DEF RequestsInv, UnitsInv, NormalUnits
    <3>2. CASE units' = units
      BY <3>2, FewerUnits
    <3>3. ASSUME NEW s \in updatedSpecs(u.spec, req),
                 units' = (units \ {u}) \cup {[u EXCEPT !.spec = s]}
          PROVE  NormalUnits'
      <4> DEFINE new == [u EXCEPT !.spec = s]
      <4>1. new.spec = s /\ new.name = u.name
        BY <3>1 DEF ProperUnit, UnitFields
      <4>2. NormalSpec(s)
        BY <2>2, <3>1, UpdatedIsNormal DEF ProperUnit
      <4>3. units' = (units \ {u}) \cup {new}
        BY <3>3
      <4> HIDE DEF new
      <4> QED BY <3>1, <4>1, <4>2, <4>3 DEF NormalUnits
    <3> QED BY <2>4, <3>1, <3>2, <3>3, UpdateKeeps
  <2>5. NormalClones'
    BY <1>3, SameClones DEF handleUpdateGPUUnit
  <2> QED BY <2>1, <2>3, <2>4, <2>5
<1>4. ASSUME NEW name \in Names, handleDeleteGPUUnit(name) PROVE NormalUnits' /\ NormalClones'
  <2>1. units' \subseteq units
    <3>1. CASE \E kind \in {"validation", "notFound", "other"} : Refuse({}, kind)
      BY <3>1, Refused
    <3> QED BY <1>4, <3>1 DEF handleDeleteGPUUnit
  <2> QED BY <1>4, <2>1, FewerUnits, SameClones DEF handleDeleteGPUUnit
<1>5. ASSUME NEW s \in StorageNames, handleDeleteGPUStorage(s) \/ handleCreateGPUStorage(s)
      PROVE  NormalUnits' /\ NormalClones'
  <2>1. units' = units
    BY <1>5 DEF handleDeleteGPUStorage, handleCreateGPUStorage, Refuse
  <2>2. UNCHANGED <<offered, inflight>>
    BY <1>5 DEF handleDeleteGPUStorage, handleCreateGPUStorage
  <2> QED BY <2>1, <2>2, FewerUnits, SameClones
<1>6. ASSUME NEW i \in Invocations, acquireWorker(i) PROVE NormalUnits' /\ NormalClones'
  <2> DEFINE us == listServerlessUnits(i.requestID)
             t == templateUnit(us)
  <2>1. us # {} /\ us \subseteq units /\ \A u \in us : NameOrder[u.name.word] \in Nat
    BY <1>6, NameOrderAssumption
       DEF acquireWorker, listServerlessUnits, RequestsInv, UnitsInv, ProperUnit, StoredName
  <2>2. t \in us
    BY <2>1, TemplateExists
  <2>3. t.spec.serverless.requestID = i.requestID
    BY <2>2 DEF listServerlessUnits
  <2> HIDE DEF us, t
  <2>4. t \in units /\ ProperUnit(t) /\ NormalSpec(t.spec) /\ CatalogInv
    BY <2>1, <2>2 DEF RequestsInv, UnitsInv, NormalUnits
  <2> DEFINE r == buildCreateRequest(t, i)
             c == [req |-> r, from |-> t.spec]
  <2>5. /\ \A f \in ClonedParts : r[f] = t.spec[f]
        /\ IsName(r.name) => UsableName(r.name)
        /\ \E p \in offered : /\ FromPackage(r, p, Blank)
                              /\ FromPackage(t.spec, p, t.spec.allocation.claimName)
    BY <2>3, <2>4, ClonesAreNormal
  <2>6. inflight' = {c} /\ UNCHANGED <<units, offered>>
    BY <1>6 DEF acquireWorker, t, us
  <2> HIDE DEF r
  <2>7. c.req = r /\ c.from = t.spec
    OBVIOUS
  <2> HIDE DEF c
  <2>8. NormalClones'
    BY <2>4, <2>5, <2>6, <2>7 DEF NormalClones
  <2> QED BY <2>6, <2>8, FewerUnits
<1>7. ASSUME createWorker PROVE NormalUnits' /\ NormalClones'
  <2>1. PICK c \in inflight : CreateGPUUnit({}, c.req, {})
    BY <1>7 DEF createWorker
  <2>2. ProperRequest(c.req)
    BY DEF RequestsInv, InflightInv
  <2>3. NormalUnits'
    BY <2>1, <2>2, WorkerRequestsAreNormal, CreateKeepsNormal
  <2> QED BY <1>7, <2>3 DEF createWorker, NormalClones
<1>8. CASE UNCHANGED vars
  BY <1>8, FewerUnits, SameClones DEF vars
<1> QED BY <1>1, <1>2, <1>3, <1>4, <1>5, <1>6, <1>7, <1>8 DEF Next

LEMMA NormalInvariant == Spec => []NormalInv
<1>1. Init => NormalInv
  BY DEF Init, NormalInv, NormalUnits, NormalClones
<1> QED BY <1>1, NextNormal, RequestsInvariant, PTL DEF Spec

\* A worker has the package of the request it was made from.
LEMMA WorkerKeepsPackage ==
  ASSUME NEW r, ProperRequest(r), NEW p, NormalPackage(p), FromPackage(r, p, Blank),
         NEW n \in NormalizeCreateGPUUnitRequest(r, {})
  PROVE  FromPackage(n, p, claimNameOf(n.name))
<1>1. PICK req \in packaged(r, {}), name \in NormalizeName(r.name) : n \in normalizedParts(req, name)
  BY DEF NormalizeCreateGPUUnitRequest
<1>2. FromPackage(req, p, Blank)
  BY ClonedRequests DEF ProperRequest
<1> QED BY <1>1, <1>2, PartsKeepPackage

\* Specs with one package render to the same resources.
LEMMA SameResources ==
  ASSUME NEW p, NEW s, NEW x, FromPackage(s, p, x), NEW t, NEW y, FromPackage(t, p, y)
  PROVE  /\ s.packageID = t.packageID /\ s.fields = t.fields /\ s.gpu = t.gpu
         /\ [s.allocation EXCEPT !.claimName = Blank] = [t.allocation EXCEPT !.claimName = Blank]
<1>1. ASSUME NEW a, NEW z
      PROVE  [[a EXCEPT !.claimName = z] EXCEPT !.claimName = Blank] = [a EXCEPT !.claimName = Blank]
  OBVIOUS
<1>2. /\ s.allocation = [p.allocation EXCEPT !.claimName = x]
      /\ t.allocation = [p.allocation EXCEPT !.claimName = y]
  BY DEF FromPackage
<1>3. [s.allocation EXCEPT !.claimName = Blank] = [t.allocation EXCEPT !.claimName = Blank]
  BY <1>1, <1>2
<1> QED BY <1>3 DEF FromPackage

\* The spec of a worker renders to what its template's did.
LEMMA WorkersAreFaithful ==
  ASSUME CatalogInv, NormalClones, NEW c \in inflight, ProperRequest(c.req),
         NEW n \in NormalizeCreateGPUUnitRequest(c.req, {}), NEW w, w.spec = [f \in SpecFields |-> n[f]]
  PROVE  Rendered(w.spec) = Rendered(c.from)
<1>1. PICK p \in offered : /\ FromPackage(c.req, p, Blank)
                           /\ FromPackage(c.from, p, c.from.allocation.claimName)
  BY DEF NormalClones
<1>2. FromPackage(n, p, claimNameOf(n.name))
  BY <1>1, WorkerKeepsPackage DEF CatalogInv
<1>3. /\ w.spec.packageID = n.packageID /\ w.spec.fields = n.fields /\ w.spec.gpu = n.gpu
      /\ w.spec.allocation = n.allocation /\ w.spec.image = n.image
      /\ w.spec.template = n.template /\ w.spec.access = n.access /\ w.spec.ssh = n.ssh
      /\ w.spec.serverless = n.serverless /\ w.spec.storageMounts = n.storageMounts
  BY DEF SpecFields
<1>4. FromPackage(w.spec, p, claimNameOf(n.name))
  BY <1>2, <1>3 DEF FromPackage
<1>5. MadeFrom(n, c.req)
  BY WorkerRequestsAreNormal
<1>6. /\ c.req.image = c.from.image /\ c.req.template = c.from.template
      /\ c.req.access = c.from.access /\ c.req.ssh = c.from.ssh
      /\ c.req.serverless = c.from.serverless /\ c.req.storageMounts = c.from.storageMounts
      /\ NormalSpec(c.from)
  BY DEF NormalClones, ClonedParts
<1>7. n.image = c.from.image /\ n.template = c.from.template
  BY <1>5, <1>6 DEF MadeFrom, NormalSpec
<1>8. n.access = c.from.access
  BY <1>5, <1>6, <1>7 DEF MadeFrom, NormalSpec
<1>9. n.ssh = c.from.ssh
  BY <1>5, <1>6, SSHStable DEF MadeFrom, NormalSpec
<1>10. n.storageMounts = c.from.storageMounts
  BY <1>5, <1>6 DEF MadeFrom, NormalSpec
<1>11. resolveUnitServerlessSpec(n.serverless) = resolveUnitServerlessSpec(c.from.serverless)
  BY <1>5, <1>6, ServerlessStable DEF MadeFrom, NormalSpec
<1>12. /\ w.spec.packageID = c.from.packageID /\ w.spec.fields = c.from.fields
       /\ w.spec.gpu = c.from.gpu
       /\ [w.spec.allocation EXCEPT !.claimName = Blank]
            = [c.from.allocation EXCEPT !.claimName = Blank]
  BY <1>1, <1>4, SameResources
<1> QED BY <1>3, <1>7, <1>8, <1>9, <1>10, <1>11, <1>12 DEF Rendered

-----------------------------------------------------------------------------
(* Whoever says the same asks for the same.                                *)

\* A mount that says what a usable one says comes out the same.
LEMMA SameMount ==
  ASSUME NEW m, TrimSpace(m.mountPath).form # "relative", NEW k, MountSaid(m) = MountSaid(k)
  PROVE  /\ TrimSpace(k.mountPath).form # "relative"
         /\ ToLower(TrimSpace(k.name)) = ToLower(TrimSpace(m.name))
         /\ Clean(TrimSpace(k.mountPath)) = Clean(TrimSpace(m.mountPath))
<1> DEFINE x == TrimSpace(m.mountPath)
           y == TrimSpace(k.mountPath)
<1>1. /\ ToLower(TrimSpace(k.name)) = ToLower(TrimSpace(m.name))
      /\ CleanRooted(x) = CleanRooted(y)
  BY DEF MountSaid
<1> HIDE DEF x, y
<1>2. x.form # "relative"
  BY DEF x
<1>3. CleanRooted(x) = Clean(x) /\ Clean(x).form # "relative"
  BY <1>2 DEF CleanRooted, Clean, Plain, Text
<1>4. y.form # "relative" /\ CleanRooted(y) = Clean(y)
  BY <1>1, <1>3 DEF CleanRooted
<1> QED BY <1>1, <1>3, <1>4 DEF x, y

\* Two lists of as many mounts that say the same are both usable or both not,
\* and have the same mounts.
LEMMA MountsSaid ==
  ASSUME NEW ms, MountList(ms), mountsUsable(ms), NEW ks, MountList(ks),
         SaidMounts(ms) = SaidMounts(ks), Len(ms) = Len(ks)
  PROVE  mountsUsable(ks) /\ MountSet(trimmedMounts(ks)) = MountSet(trimmedMounts(ms))
<1> DEFINE L == Len(ms)
           out == trimmedMounts(ms)
           got == trimmedMounts(ks)
           S == MountSet(out)
<1>1. DOMAIN ms = 1..L /\ DOMAIN ks = 1..L /\ L \in Nat
  BY DEF MountList
<1>2. /\ DOMAIN out = 1..L
      /\ \A i, j \in 1..L : out[i].name = out[j].name => i = j
      /\ \A i, j \in 1..L : out[i].mountPath = out[j].mountPath => i = j
  BY UsableMounts
<1>3. \A i \in 1..L : /\ IsName(out[i].name) /\ out[i].mountPath \notin {Blank, Root}
                      /\ TrimSpace(ms[i].mountPath).form # "relative"
  BY <1>1 DEF mountsUsable
<1>4. DOMAIN got = 1..L
  BY <1>1 DEF trimmedMounts
<1>5. /\ \A i \in 1..L : \E j \in 1..L : MountSaid(ms[i]) = MountSaid(ks[j])
      /\ \A j \in 1..L : \E i \in 1..L : MountSaid(ms[i]) = MountSaid(ks[j])
  <2>1. ToSet(ms) = {ms[i] : i \in 1..L} /\ ToSet(ks) = {ks[i] : i \in 1..L}
    BY <1>1 DEF ToSet
  <2>2. \A y : y \in SaidMounts(ms) <=> \E i \in 1..L : y = MountSaid(ms[i])
    BY <2>1 DEF SaidMounts
  <2>3. \A y : y \in SaidMounts(ks) <=> \E i \in 1..L : y = MountSaid(ks[i])
    BY <2>1 DEF SaidMounts
  <2> HIDE DEF L
  <2> QED BY <2>2, <2>3
<1>6. ASSUME NEW i \in 1..L, NEW j \in 1..L, MountSaid(ms[i]) = MountSaid(ks[j])
      PROVE  got[j] = out[i] /\ TrimSpace(ks[j].mountPath).form # "relative"
  <2>1. /\ TrimSpace(ks[j].mountPath).form # "relative"
        /\ ToLower(TrimSpace(ks[j].name)) = ToLower(TrimSpace(ms[i].name))
        /\ Clean(TrimSpace(ks[j].mountPath)) = Clean(TrimSpace(ms[i].mountPath))
    BY <1>3, <1>6, SameMount
  <2> QED BY <1>1, <2>1 DEF trimmedMounts
<1> HIDE DEF out, got, L
<1>7. /\ \A j \in 1..L : got[j] \in S /\ TrimSpace(ks[j].mountPath).form # "relative"
      /\ \A x \in S : \E j \in 1..L : got[j] = x
  <2>1. \A i \in 1..L : out[i] \in S
    BY <1>2 DEF MountSet
  <2>2. \A x \in S : \E i \in 1..L : x = out[i]
    BY <1>2 DEF MountSet
  <2> HIDE DEF S
  <2>3. ASSUME NEW j \in 1..L
        PROVE  got[j] \in S /\ TrimSpace(ks[j].mountPath).form # "relative"
    <3>1. PICK i \in 1..L : MountSaid(ms[i]) = MountSaid(ks[j])
      BY <1>5
    <3> QED BY <1>6, <2>1, <3>1
  <2>4. ASSUME NEW x \in S PROVE \E j \in 1..L : got[j] = x
    <3>1. PICK i \in 1..L : x = out[i]
      BY <2>2
    <3>2. PICK j \in 1..L : MountSaid(ms[i]) = MountSaid(ks[j])
      BY <1>5
    <3> QED BY <1>6, <3>1, <3>2
  <2> QED BY <2>3, <2>4
<1>8. MountSet(got) = S
  BY <1>4, <1>7 DEF MountSet
<1>9. \A x \in S : \E i \in 1..L : x = out[i]
  BY <1>2 DEF MountSet
<1>10. \A i \in 1..L : out[i] \in S
  BY <1>2 DEF MountSet
<1> HIDE DEF S
<1>11. \A i, j \in 1..L : got[i] = got[j] => i = j
  <2> DEFINE f == [i \in 1..L |-> out[i]]
             g == [i \in 1..L |-> got[i]]
  <2>1. f \in Bijection(1..L, S)
    BY <1>2, <1>9, <1>10 DEF Bijection, Injection, Surjection, IsInjective
  <2>2. g \in Surjection(1..L, S)
    BY <1>7 DEF Surjection
  <2>3. IsFiniteSet(1..L)
    BY <1>1, FS_Interval
  <2>4. ExistsBijection(1..L, S)
    BY <2>1 DEF ExistsBijection
  <2> HIDE DEF f, g
  <2>5. Cardinality(1..L) = Cardinality(S)
    BY <2>3, <2>4, FS_Bijection
  <2>6. g \in Injection(1..L, S)
    BY <2>2, <2>3, <2>5, FS_SurjSameCardinalityImpliesInj
  <2> QED BY <2>6 DEF Injection, IsInjective, g
<1>12. /\ \A x, y \in S : x.name = y.name => x = y
       /\ \A x, y \in S : x.mountPath = y.mountPath => x = y
       /\ \A x \in S : IsName(x.name) /\ x.mountPath \notin {Blank, Root}
  BY <1>2, <1>3, <1>9
<1>13. /\ IsInjective([i \in DOMAIN got |-> got[i].name])
       /\ IsInjective([i \in DOMAIN got |-> got[i].mountPath])
  BY <1>4, <1>7, <1>11, <1>12 DEF IsInjective
<1>14. \A j \in DOMAIN ks : /\ IsName(got[j].name) /\ got[j].mountPath \notin {Blank, Root}
                            /\ TrimSpace(ks[j].mountPath).form # "relative"
  BY <1>1, <1>7, <1>12
<1>15. mountsUsable(ks)
  BY <1>13, <1>14 DEF mountsUsable, got
<1> QED BY <1>8, <1>15 DEF S, out, got

\* The order of mounts and their spelling do not matter.
LEMMA SameMounts ==
  ASSUME NEW ms, MountList(ms), NEW ks, MountList(ks), SaidMounts(ms) = SaidMounts(ks),
         Len(ms) = Len(ks)
  PROVE  NormalizeGPUUnitStorageMounts(ms) = NormalizeGPUUnitStorageMounts(ks)
<1> DEFINE S(x) == MountSet(trimmedMounts(x))
           order(x) == inOrder(S(x), MountRank(S(x)))
<1>1. /\ NormalizeGPUUnitStorageMounts(ms) = Accept(mountsUsable(ms), order(ms))
      /\ NormalizeGPUUnitStorageMounts(ks) = Accept(mountsUsable(ks), order(ks))
  BY MountsForm
<1>2. mountsUsable(ms) <=> mountsUsable(ks)
  BY MountsSaid
<1>3. mountsUsable(ms) => S(ms) = S(ks)
  BY MountsSaid
<1>4. mountsUsable(ms) => order(ms) = order(ks)
  <2> HIDE DEF S
  <2> QED BY <1>3
<1> HIDE DEF order
<1> QED BY <1>1, <1>2, <1>4 DEF Accept

\* Normalising the parts of a request has one result at most.
LEMMA PartsAreUnique ==
  ASSUME NEW req, NEW name, NEW n \in normalizedParts(req, name), NEW k \in normalizedParts(req, name)
  PROVE  n = k
<1>1. \A condition, result : \A x, y \in Accept(condition, result) : x = y
  BY DEF Accept
<1>2. \A t, x, y : x \in NormalizeGPUUnitTemplate(t) /\ y \in NormalizeGPUUnitTemplate(t) => x = y
  <2> SUFFICES ASSUME NEW t
               PROVE  \E condition, result : NormalizeGPUUnitTemplate(t) = Accept(condition, result)
    BY <1>1
  <2> QED BY Zenon DEF NormalizeGPUUnitTemplate
<1>3. \A a, p, x, y : x \in NormalizeGPUUnitAccess(a, p) /\ y \in NormalizeGPUUnitAccess(a, p) => x = y
  <2> SUFFICES ASSUME NEW a, NEW p
               PROVE  \E condition, result : NormalizeGPUUnitAccess(a, p) = Accept(condition, result)
    BY <1>1
  <2> QED BY Zenon DEF NormalizeGPUUnitAccess
<1>4. \A m, s, x, y : x \in NormalizeGPUUnitSSH(m, s) /\ y \in NormalizeGPUUnitSSH(m, s) => x = y
  BY <1>1, ZenonT(60) DEF NormalizeGPUUnitSSH
<1>5. \A s, x, y : x \in NormalizeGPUUnitServerless(s) /\ y \in NormalizeGPUUnitServerless(s) => x = y
  <2>1. \A t : \A x, y \in NormalizeRequestID(t) : x = y
    BY <1>1 DEF NormalizeRequestID
  <2>2. \A s : \A x, y \in NormalizeGPUUnitServerlessFramework(s) : x = y
    BY <1>1 DEF NormalizeGPUUnitServerlessFramework
  <2> QED BY <2>1, <2>2 DEF NormalizeGPUUnitServerless
<1>6. \A s, x, y : x \in NormalizeGPUUnitStorageMounts(s) /\ y \in NormalizeGPUUnitStorageMounts(s) => x = y
  BY <1>1 DEF NormalizeGPUUnitStorageMounts
<1>7. \A a, m, x, y : x \in NormalizeDRAAllocation(m, a) /\ y \in NormalizeDRAAllocation(m, a) => x = y
  BY <1>1 DEF NormalizeDRAAllocation
<1>8. PICK t \in NormalizeGPUUnitTemplate(req.template) : n \in requestParts(req, name, t)
  BY DEF normalizedParts
<1>9. PICK u \in NormalizeGPUUnitTemplate(req.template) : k \in requestParts(req, name, u)
  BY DEF normalizedParts
<1>10. u = t
  BY <1>2, <1>8, <1>9
<1> DEFINE made(al, ac, ss, se, m) ==
             [operationID |-> TrimSpace(req.operationID), name |-> name,
              packageID |-> req.packageID, fields |-> trimmedFields(req),
              image |-> TrimSpace(req.image), gpu |-> req.gpu, allocation |-> al,
              template |-> t, access |-> ac, ssh |-> ss, serverless |-> se, storageMounts |-> m]
<1>11. ASSUME NEW x \in requestParts(req, name, t)
       PROVE  \E al \in NormalizeDRAAllocation(name, req.allocation),
                 ac \in NormalizeGPUUnitAccess(req.access, t.ports),
                 ss \in NormalizeGPUUnitSSH(name, req.ssh),
                 se \in NormalizeGPUUnitServerless(req.serverless),
                 m \in NormalizeGPUUnitStorageMounts(req.storageMounts) : x = made(al, ac, ss, se, m)
  BY DEF requestParts
<1> HIDE DEF made
<1> QED BY <1>3, <1>4, <1>5, <1>6, <1>7, <1>8, <1>9, <1>10, <1>11

\* The parts of a request that decide what it is normalised to.
SameAsk(r, q) ==
  /\ TrimSpace(r.operationID) = TrimSpace(q.operationID)
  /\ \A f \in {"packageID", "fields", "image", "gpu", "allocation", "template", "access", "ssh",
               "serverless"} : r[f] = q[f]
  /\ NormalizeGPUUnitStorageMounts(r.storageMounts) = NormalizeGPUUnitStorageMounts(q.storageMounts)

\* Requests that ask for the same have the same results.
LEMMA SameParts ==
  ASSUME NEW r, NEW q, SameAsk(r, q), NEW name
  PROVE  normalizedParts(r, name) = normalizedParts(q, name)
<1>1. /\ TrimSpace(r.operationID) = TrimSpace(q.operationID) /\ r.packageID = q.packageID
      /\ r.fields = q.fields /\ r.image = q.image /\ r.gpu = q.gpu /\ r.allocation = q.allocation
      /\ r.template = q.template /\ r.access = q.access /\ r.ssh = q.ssh /\ r.serverless = q.serverless
      /\ NormalizeGPUUnitStorageMounts(r.storageMounts)
           = NormalizeGPUUnitStorageMounts(q.storageMounts)
  BY DEF SameAsk
<1>2. trimmedFields(r) = trimmedFields(q)
  BY <1>1 DEF trimmedFields
<1>3. ASSUME NEW t PROVE requestParts(r, name, t) = requestParts(q, name, t)
  BY <1>1, <1>2 DEF requestParts
<1> QED BY <1>1, <1>2, <1>3 DEF normalizedParts

\* What two requests that say the same have in common.
LEMMA SaidTheSame ==
  ASSUME NEW q \in CreateRequests, NEW r \in CreateRequests, Said(q) = Said(r)
  PROVE  /\ TrimSpace(q.operationID) = TrimSpace(r.operationID)
         /\ ToLower(TrimSpace(q.name)) = ToLower(TrimSpace(r.name))
         /\ ToLower(TrimSpace(q.packageID)) = ToLower(TrimSpace(r.packageID))
         /\ q.allocation = r.allocation
         /\ \A f \in {"fields", "image", "gpu", "template", "access", "ssh", "serverless"} : q[f] = r[f]
         /\ NormalizeGPUUnitStorageMounts(q.storageMounts)
              = NormalizeGPUUnitStorageMounts(r.storageMounts)
<1> DEFINE Rest == {"fields", "image", "gpu", "template", "access", "ssh", "serverless"}
<1>1. /\ Said(q).operationID = TrimSpace(q.operationID)
      /\ Said(q).name = ToLower(TrimSpace(q.name))
      /\ Said(q).packageID = ToLower(TrimSpace(q.packageID))
      /\ Said(q).rest = [f \in Rest |-> q[f]]
      /\ Said(q).mounts = SaidMounts(q.storageMounts)
      /\ Said(q).count = Len(q.storageMounts)
  BY DEF Said
<1>2. /\ Said(r).operationID = TrimSpace(r.operationID)
      /\ Said(r).name = ToLower(TrimSpace(r.name))
      /\ Said(r).packageID = ToLower(TrimSpace(r.packageID))
      /\ Said(r).rest = [f \in Rest |-> r[f]]
      /\ Said(r).mounts = SaidMounts(r.storageMounts)
      /\ Said(r).count = Len(r.storageMounts)
  BY DEF Said
<1>3. [f \in Rest |-> q[f]] = [f \in Rest |-> r[f]]
  BY <1>1, <1>2
<1>4. \A f \in Rest : q[f] = r[f]
  <2> HIDE DEF Rest
  <2>1. \A f \in Rest : [g \in Rest |-> q[g]][f] = [g \in Rest |-> r[g]][f]
    BY <1>3
  <2> QED BY <2>1
<1>5. /\ MountList(q.storageMounts) /\ MountList(r.storageMounts)
      /\ q.allocation = r.allocation
  BY RequestAssumption
<1>6. NormalizeGPUUnitStorageMounts(q.storageMounts) = NormalizeGPUUnitStorageMounts(r.storageMounts)
  BY <1>1, <1>2, <1>5, SameMounts
<1> HIDE DEF Rest
<1>7. /\ TrimSpace(q.operationID) = TrimSpace(r.operationID)
      /\ ToLower(TrimSpace(q.name)) = ToLower(TrimSpace(r.name))
      /\ ToLower(TrimSpace(q.packageID)) = ToLower(TrimSpace(r.packageID))
  BY <1>1, <1>2
<1> QED BY <1>4, <1>5, <1>6, <1>7 DEF Rest

\* A request of the API with the resources of the package p.
Expanded(q, p) ==
  [q EXCEPT !.packageID = p.id, !.fields = p.fields, !.gpu = p.gpu, !.allocation = p.allocation]

\* The packages of a catalogue that a request may be expanded from.
Fitting(q, catalog) ==
  {p \in Lookup(catalog, ToLower(TrimSpace(q.packageID))) :
     /\ \A f \in Fields : rejectPackageStringOverride(q.fields[f], p.fields[f])
     /\ q.gpu \in {0, p.gpu}}

\* A request of the API is expanded from a package that fits, or refused.
LEMMA APIExpands ==
  ASSUME NEW q \in CreateRequests, NEW catalog
  PROVE  packaged(q, catalog) = IF ToLower(TrimSpace(q.packageID)) # Blank
                                THEN {Expanded(q, p) : p \in Fitting(q, catalog)} ELSE {}
<1>1. TrimSpace(q.allocation.deviceClassName) = Blank
  BY RequestAssumption DEF NoAllocation, TrimSpace, Blank, Plain, Text
<1>2. packaged(q, catalog) = IF ToLower(TrimSpace(q.packageID)) # Blank
                             THEN ExpandRuntimePackage(q, catalog) ELSE {}
  BY <1>1 DEF packaged, Accept
<1>3. ExpandRuntimePackage(q, catalog) = {Expanded(q, p) : p \in Fitting(q, catalog)}
  BY DEF ExpandRuntimePackage, Expanded, Fitting
<1> QED BY <1>2, <1>3

\* Requests that say the same are normalised to the same.
LEMMA SaidIsEnough ==
  ASSUME NEW q \in CreateRequests, NEW r \in CreateRequests, Said(q) = Said(r), NEW catalog,
         NEW n \in NormalizeCreateGPUUnitRequest(q, catalog)
  PROVE  n \in NormalizeCreateGPUUnitRequest(r, catalog)
<1>1. PICK req \in packaged(q, catalog), name \in NormalizeName(q.name) : n \in normalizedParts(req, name)
  BY DEF NormalizeCreateGPUUnitRequest
<1>2. /\ TrimSpace(q.operationID) = TrimSpace(r.operationID)
      /\ ToLower(TrimSpace(q.name)) = ToLower(TrimSpace(r.name))
      /\ ToLower(TrimSpace(q.packageID)) = ToLower(TrimSpace(r.packageID))
      /\ \A f \in {"fields", "image", "gpu", "template", "access", "ssh", "serverless"} : q[f] = r[f]
      /\ NormalizeGPUUnitStorageMounts(q.storageMounts) = NormalizeGPUUnitStorageMounts(r.storageMounts)
  BY SaidTheSame
<1>3. name \in NormalizeName(r.name)
  BY <1>2 DEF NormalizeName
<1>4. PICK p \in Fitting(q, catalog) : req = Expanded(q, p) /\ ToLower(TrimSpace(q.packageID)) # Blank
  BY <1>1, APIExpands
<1>5. p \in Fitting(r, catalog)
  BY <1>2 DEF Fitting
<1>6. Expanded(r, p) \in packaged(r, catalog)
  BY <1>2, <1>4, <1>5, APIExpands
<1>7. SameAsk(Expanded(q, p), Expanded(r, p))
  <2>1. DOMAIN q = RequestFields /\ DOMAIN r = RequestFields
    BY RequestAssumption DEF RequestFields
  <2>2. ASSUME NEW x, DOMAIN x = RequestFields
        PROVE  /\ \A f \in RequestFields \ {"packageID", "fields", "gpu", "allocation"} :
                    Expanded(x, p)[f] = x[f]
               /\ Expanded(x, p).packageID = p.id /\ Expanded(x, p).fields = p.fields
               /\ Expanded(x, p).gpu = p.gpu /\ Expanded(x, p).allocation = p.allocation
    BY <2>2 DEF Expanded, RequestFields, SpecFields
  <2> DEFINE a == Expanded(q, p)
             b == Expanded(r, p)
  <2>3. /\ a.operationID = q.operationID /\ a.image = q.image /\ a.template = q.template
        /\ a.access = q.access /\ a.ssh = q.ssh /\ a.serverless = q.serverless
        /\ a.storageMounts = q.storageMounts /\ a.packageID = p.id /\ a.fields = p.fields
        /\ a.gpu = p.gpu /\ a.allocation = p.allocation
    BY <2>1, <2>2 DEF RequestFields, SpecFields
  <2>4. /\ b.operationID = r.operationID /\ b.image = r.image /\ b.template = r.template
        /\ b.access = r.access /\ b.ssh = r.ssh /\ b.serverless = r.serverless
        /\ b.storageMounts = r.storageMounts /\ b.packageID = p.id /\ b.fields = p.fields
        /\ b.gpu = p.gpu /\ b.allocation = p.allocation
    BY <2>1, <2>2 DEF RequestFields, SpecFields
  <2> HIDE DEF a, b
  <2>5. SameAsk(a, b)
    BY <1>2, <2>3, <2>4 DEF SameAsk
  <2> QED BY <2>5 DEF a, b
<1>8. n \in normalizedParts(Expanded(r, p), name)
  BY <1>1, <1>4, <1>7, SameParts
<1> QED BY <1>3, <1>6, <1>8 DEF NormalizeCreateGPUUnitRequest

\* A request has one result at most if its package is the only one of its name.
LEMMA ResultsAreUnique ==
  ASSUME NEW q \in CreateRequests, NEW catalog, \A p, r \in catalog : p.id = r.id => p = r,
         NEW n \in NormalizeCreateGPUUnitRequest(q, catalog),
         NEW k \in NormalizeCreateGPUUnitRequest(q, catalog)
  PROVE  n = k
<1>1. PICK a \in packaged(q, catalog), x \in NormalizeName(q.name) : n \in normalizedParts(a, x)
  BY DEF NormalizeCreateGPUUnitRequest
<1>2. PICK b \in packaged(q, catalog), y \in NormalizeName(q.name) : k \in normalizedParts(b, y)
  BY DEF NormalizeCreateGPUUnitRequest
<1>3. x = y
  BY DEF NormalizeName, Accept
<1>4. PICK p \in Fitting(q, catalog) : a = Expanded(q, p)
  BY APIExpands
<1>5. PICK r \in Fitting(q, catalog) : b = Expanded(q, r)
  BY APIExpands
<1>6. p = r
  BY DEF Fitting, Lookup
<1> QED BY <1>1, <1>2, <1>3, <1>4, <1>5, <1>6, PartsAreUnique

\* Only the packages with the name that a request gives count, and it keeps the name.
LEMMA NamedPackages ==
  ASSUME NEW q \in CreateRequests, NEW catalog
  PROVE  LET id == ToLower(TrimSpace(q.packageID)) IN
         /\ NormalizeCreateGPUUnitRequest(q, Lookup(catalog, id)) = NormalizeCreateGPUUnitRequest(q, catalog)
         /\ \A n \in NormalizeCreateGPUUnitRequest(q, catalog) : n.packageID = id
<1> DEFINE id == ToLower(TrimSpace(q.packageID))
<1>1. Fitting(q, Lookup(catalog, id)) = Fitting(q, catalog)
  BY DEF Fitting, Lookup
<1>2. packaged(q, Lookup(catalog, id)) = packaged(q, catalog)
  BY <1>1, APIExpands
<1>3. NormalizeCreateGPUUnitRequest(q, Lookup(catalog, id)) = NormalizeCreateGPUUnitRequest(q, catalog)
  BY <1>2 DEF NormalizeCreateGPUUnitRequest
<1>4. ASSUME NEW n \in NormalizeCreateGPUUnitRequest(q, catalog) PROVE n.packageID = id
  <2>1. PICK req \in packaged(q, catalog), name \in NormalizeName(q.name) : n \in normalizedParts(req, name)
    BY DEF NormalizeCreateGPUUnitRequest
  <2>2. PICK p \in Fitting(q, catalog) : req = Expanded(q, p)
    BY APIExpands
  <2>3. p.id = id
    BY DEF Fitting, Lookup
  <2>4. req.packageID = p.id
    BY <2>2, RequestAssumption DEF Expanded, SpecFields
  <2>5. n.packageID = req.packageID
    <3>1. PICK t : n \in requestParts(req, name, t)
      BY <2>1 DEF normalizedParts
    <3> QED BY <3>1 DEF requestParts
  <2> QED BY <2>3, <2>4, <2>5
<1> QED BY <1>3, <1>4

\* A catalogue has no two packages with one name.
LEMMA CatalogNamesOnce ==
  ASSUME NEW c, NEW n \in NormalizedCatalog(c), NEW p \in n, NEW r \in n, p.id = r.id
  PROVE  p = r
<1>1. PICK f : /\ n = {f[i] : i \in DOMAIN f}
               /\ \A i, j \in DOMAIN f : i # j => f[i].id # f[j].id
  BY DEF NormalizedCatalog
<1> QED BY <1>1

\* A unit that the API makes from a request is known by the request.
LEMMA MadeIsKnown ==
  ASSUME OneOfEachPackage, NEW q \in CreateRequests,
         NEW n \in NormalizeCreateGPUUnitRequest(q, catalogue)
  PROVE  KnownUnit(buildActiveUnitFromRequest(n, {Said(q)}))
<1> DEFINE u == buildActiveUnitFromRequest(n, {Said(q)})
<1>1. /\ u.asked = {Said(q)} /\ u.hash = n /\ u.operationID = n.operationID
      /\ u.package = Lookup(catalogue, n.packageID) /\ u.spec.packageID = n.packageID
  BY DEF buildActiveUnitFromRequest, SpecFields
<1> HIDE DEF u
<1>2. ASSUME NEW r \in CreateRequests, u.asked = {Said(r)}
      PROVE  /\ NormalizeCreateGPUUnitRequest(r, u.package) = {u.hash}
             /\ ToLower(TrimSpace(r.packageID)) = u.spec.packageID
  <2>1. Said(q) = Said(r)
    BY <1>1, <1>2
  <2>2. n.packageID = ToLower(TrimSpace(q.packageID))
    BY NamedPackages
  <2>3. ToLower(TrimSpace(r.packageID)) = n.packageID
    BY <2>1, <2>2, SaidTheSame
  <2>4. n \in NormalizeCreateGPUUnitRequest(r, catalogue)
    BY <2>1, SaidIsEnough
  <2>5. \A k \in NormalizeCreateGPUUnitRequest(r, catalogue) : k = n
    BY <2>4, ResultsAreUnique DEF OneOfEachPackage
  <2>6. NormalizeCreateGPUUnitRequest(r, catalogue) = {n}
    BY <2>4, <2>5
  <2>7. NormalizeCreateGPUUnitRequest(r, Lookup(catalogue, n.packageID)) = {n}
    BY <2>3, <2>6, NamedPackages
  <2> QED BY <1>1, <2>3, <2>7
<1>3. u.hash.operationID = u.operationID
  BY <1>1
<1>4. KnownUnit(u)
  BY <1>2, <1>3 DEF KnownUnit
<1> QED BY <1>4 DEF u

\* A unit that the activator makes answers to no request.
LEMMA WorkersAreKnown ==
  ASSUME NEW n
  PROVE  KnownUnit(buildActiveUnitFromRequest(n, {}))
<1> DEFINE u == buildActiveUnitFromRequest(n, {})
<1>1. u.asked = {} /\ u.hash = n /\ u.operationID = n.operationID
  BY DEF buildActiveUnitFromRequest
<1> HIDE DEF u
<1>2. KnownUnit(u)
  BY <1>1 DEF KnownUnit
<1> QED BY <1>2 DEF u

LEMMA FewerKnown ==
  ASSUME KnownInv, units' \subseteq units, catalogue' = catalogue
  PROVE  KnownInv'
BY DEF KnownInv, KnownUnit, OneOfEachPackage

\* Every step keeps the units known by their requests.
LEMMA NextKnown == RequestsInv /\ KnownInv /\ [Next]_vars => KnownInv'
<1> SUFFICES ASSUME RequestsInv, KnownInv, [Next]_vars PROVE KnownInv'
  OBVIOUS
<1>1. ASSUME NEW c \in Catalogues, ConfigureRuntimePackages(c) PROVE KnownInv'
  <2>1. OneOfEachPackage'
    BY <1>1, CatalogNamesOnce DEF ConfigureRuntimePackages, OneOfEachPackage
  <2> QED BY <1>1, <2>1 DEF ConfigureRuntimePackages, KnownInv, KnownUnit
<1>2. ASSUME NEW q \in CreateRequests, handleCreateGPUUnit(q) PROVE KnownInv'
  <2>1. CreateGPUUnit({Said(q)}, q, catalogue) /\ catalogue' = catalogue
    BY <1>2 DEF handleCreateGPUUnit
  <2>2. CASE units' = units
    BY <2>1, <2>2, FewerKnown
  <2>3. ASSUME NEW n \in NormalizeCreateGPUUnitRequest(q, catalogue),
               units' = units \cup {buildActiveUnitFromRequest(n, {Said(q)})}
        PROVE  KnownInv'
    <3>1. KnownUnit(buildActiveUnitFromRequest(n, {Said(q)}))
      BY MadeIsKnown DEF KnownInv
    <3>2. \A u \in units' : KnownUnit(u)
      BY <2>3, <3>1 DEF KnownInv
    <3> QED BY <2>1, <3>2 DEF KnownInv, KnownUnit, OneOfEachPackage
  <2> QED BY <2>1, <2>2, <2>3, CreateAdds
<1>3. ASSUME NEW name \in Names, NEW q \in UpdateRequests, handleUpdateGPUUnit(name, q)
      PROVE  KnownInv'
  <2>1. catalogue' = catalogue
    BY <1>3 DEF handleUpdateGPUUnit
  <2>2. CASE \E kind \in {"validation", "notFound", "other"} : Refuse({}, kind)
    BY <2>1, <2>2, Refused, FewerKnown
  <2>3. ASSUME NEW u \in units, NEW req, UpdateNormalized(u, req) PROVE KnownInv'
    <3>1. ProperUnit(u)
      BY DEF RequestsInv, UnitsInv
    <3>2. CASE units' = units
      BY <2>1, <3>2, FewerKnown
    <3>3. ASSUME NEW s, units' = (units \ {u}) \cup {[u EXCEPT !.spec = s]},
                 s.packageID = u.spec.packageID
          PROVE  KnownInv'
      <4> DEFINE new == [u EXCEPT !.spec = s]
      <4>1. /\ new.spec = s /\ new.asked = u.asked /\ new.package = u.package
            /\ new.hash = u.hash /\ new.operationID = u.operationID
        BY <3>1 DEF ProperUnit, UnitFields
      <4>2. units' = (units \ {u}) \cup {new}
        BY <3>3
      <4> HIDE DEF new
      <4>3. KnownUnit(new)
        BY <3>3, <4>1 DEF KnownInv, KnownUnit
      <4>4. \A v \in units' : KnownUnit(v)
        BY <4>2, <4>3 DEF KnownInv
      <4> QED BY <2>1, <4>4 DEF KnownInv, KnownUnit, OneOfEachPackage
    <3> QED BY <2>3, <3>1, <3>2, <3>3, UpdateKeeps
  <2> QED BY <1>3, <2>2, <2>3 DEF handleUpdateGPUUnit, unitsNamed
<1>4. ASSUME NEW name \in Names, handleDeleteGPUUnit(name) PROVE KnownInv'
  <2>1. units' \subseteq units
    <3>1. CASE \E kind \in {"validation", "notFound", "other"} : Refuse({}, kind)
      BY <3>1, Refused
    <3> QED BY <1>4, <3>1 DEF handleDeleteGPUUnit
  <2> QED BY <1>4, <2>1, FewerKnown DEF handleDeleteGPUUnit
<1>5. ASSUME NEW s \in StorageNames, handleDeleteGPUStorage(s) \/ handleCreateGPUStorage(s)
      PROVE  KnownInv'
  <2>1. units' = units
    BY <1>5 DEF handleDeleteGPUStorage, handleCreateGPUStorage, Refuse
  <2>2. catalogue' = catalogue
    BY <1>5 DEF handleDeleteGPUStorage, handleCreateGPUStorage
  <2> QED BY <2>1, <2>2, FewerKnown
<1>6. ASSUME NEW i \in Invocations, acquireWorker(i) PROVE KnownInv'
  BY <1>6, FewerKnown DEF acquireWorker
<1>7. ASSUME createWorker PROVE KnownInv'
  <2>1. catalogue' = catalogue /\ \E c \in inflight : CreateGPUUnit({}, c.req, {})
    BY <1>7 DEF createWorker
  <2>2. CASE units' = units
    BY <2>1, <2>2, FewerKnown
  <2>3. ASSUME NEW n, units' = units \cup {buildActiveUnitFromRequest(n, {})} PROVE KnownInv'
    <3>1. \A u \in units' : KnownUnit(u)
      BY <2>3, WorkersAreKnown DEF KnownInv
    <3> QED BY <2>1, <3>1 DEF KnownInv, KnownUnit, OneOfEachPackage
  <2> QED BY <2>1, <2>2, <2>3, CreateAdds
<1>8. CASE UNCHANGED vars
  BY <1>8, FewerKnown DEF vars
<1> QED BY <1>1, <1>2, <1>3, <1>4, <1>5, <1>6, <1>7, <1>8 DEF Next

LEMMA KnownInvariant == Spec => []KnownInv
<1>1. Init => KnownInv
  BY CatalogNamesOnce DEF Init, KnownInv, OneOfEachPackage
<1> QED BY <1>1, NextKnown, RequestsInvariant, PTL DEF Spec

\* The answer to a request whose unit is there.
LEMMA RetryAnswers ==
  ASSUME RequestsInv, KnownInv, NEW q \in CreateRequests, handleCreateGPUUnit(q),
         NEW u \in units, u.asked = {Said(q)},
         Lookup(catalogue, u.spec.packageID) = u.package,
         ensureGPUStoragesExist(u.hash.storageMounts)
  PROVE  /\ units' = units
         /\ answer'.status \in {200, 500}
         /\ answer'.status = 200 => answer'.unit = {u.name}
<1> DEFINE asked == {Said(q)}
           n == u.hash
<1>1. NormalizeCreateGPUUnitRequest(q, catalogue) = {n}
  <2>1. /\ NormalizeCreateGPUUnitRequest(q, u.package) = {u.hash}
        /\ ToLower(TrimSpace(q.packageID)) = u.spec.packageID
    BY DEF KnownInv, KnownUnit
  <2> QED BY <2>1, NamedPackages
<1>2. n.operationID = u.operationID
  BY DEF KnownInv, KnownUnit
<1>3. CreateGPUUnit(asked, q, catalogue)
  BY DEF handleCreateGPUUnit
<1>4. {v \in units : v.operationID = n.operationID} = {u}
  BY <1>2 DEF RequestsInv, UnitsInv, UniqueUnits
<1>5. findExistingGPUUnitOperation(n) = [found |-> {u}, conflict |-> FALSE]
  BY <1>4 DEF findExistingGPUUnitOperation
<1>6. CreateNormalized(asked, n) => Answer(asked, 200, {u}) /\ UNCHANGED units
  BY <1>5 DEF CreateNormalized
<1>7. \/ Answer(asked, 200, {u}) /\ UNCHANGED units
      \/ Refuse(asked, "other")
  BY <1>1, <1>3, <1>6 DEF CreateGPUUnit
<1>8. CASE Answer(asked, 200, {u}) /\ UNCHANGED units
  BY <1>8 DEF Answer
<1>9. CASE Refuse(asked, "other")
  BY <1>9 DEF Refuse, Answer, statusOf
<1> QED BY <1>7, <1>8, <1>9

\* Only a create request of the API gets an answer that is kept.
LEMMA AnswersAreToCreates ==
  ASSUME Next, answer'.asked # {}
  PROVE  \E q \in CreateRequests : handleCreateGPUUnit(q) /\ answer'.asked = {Said(q)}
<1>1. NoAnswer.asked = {}
  BY DEF NoAnswer
<1>2. \A kind : ~Refuse({}, kind)
  BY <1>1 DEF Refuse, Answer
<1>3. \A status, us : ~Answer({}, status, us)
  BY <1>1 DEF Answer
<1>4. ASSUME NEW name \in Names, NEW q \in UpdateRequests, handleUpdateGPUUnit(name, q) PROVE FALSE
  <2>1. \A u, req : ~UpdateNormalized(u, req)
    BY <1>2, <1>3 DEF UpdateNormalized
  <2> QED BY <1>2, <1>4, <2>1 DEF handleUpdateGPUUnit
<1>5. ASSUME NEW name \in Names, handleDeleteGPUUnit(name) PROVE FALSE
  BY <1>2, <1>3, <1>5 DEF handleDeleteGPUUnit
<1>6. ASSUME NEW s \in StorageNames, handleDeleteGPUStorage(s) \/ handleCreateGPUStorage(s) PROVE FALSE
  BY <1>2, <1>3, <1>6 DEF handleDeleteGPUStorage, handleCreateGPUStorage
<1>7. ASSUME NEW asked, NEW raw, NEW catalog, CreateGPUUnit(asked, raw, catalog)
      PROVE  \/ \E kind : Refuse(asked, kind)
             \/ \E status, us : Answer(asked, status, us)
  <2>1. ASSUME NEW n, CreateNormalized(asked, n)
        PROVE  \/ \E kind : Refuse(asked, kind)
               \/ \E status, us : Answer(asked, status, us)
    BY <2>1 DEF CreateNormalized, createDRAAllocatedGPUUnit
  <2> QED BY <1>7, <2>1 DEF CreateGPUUnit
<1>8. ASSUME createWorker PROVE FALSE
  BY <1>2, <1>3, <1>7, <1>8 DEF createWorker
<1>9. ASSUME NEW q \in CreateRequests, handleCreateGPUUnit(q) PROVE answer'.asked = {Said(q)}
  <2>1. \A status, us : Answer({Said(q)}, status, us) => answer'.asked = {Said(q)}
    BY DEF Answer
  <2>2. \A kind : Refuse({Said(q)}, kind) => answer'.asked = {Said(q)}
    BY <2>1 DEF Refuse
  <2> QED BY <1>7, <1>9, <2>1, <2>2 DEF handleCreateGPUUnit
<1>10. ASSUME NEW c \in Catalogues, ConfigureRuntimePackages(c) PROVE FALSE
  BY <1>1, <1>10 DEF ConfigureRuntimePackages
<1>11. ASSUME NEW i \in Invocations, acquireWorker(i) PROVE FALSE
  BY <1>1, <1>11 DEF acquireWorker
<1> QED BY <1>4, <1>5, <1>6, <1>8, <1>9, <1>10, <1>11 DEF Next

-----------------------------------------------------------------------------
(* The theorems.                                                           *)

\* Unit names and operation IDs stay unique and the answers have the statuses of
\* the API, whatever is asked of it and of the activator.
THEOREM TypeCorrect == Spec => []TypeOK
<1>1. RequestsInv => TypeOK
  <2> SUFFICES ASSUME RequestsInv PROVE TypeOK
    OBVIOUS
  <2>1. Cardinality(inflight) <= 1
    <3>1. CASE inflight = {}
      BY <3>1, FS_EmptySet
    <3>2. CASE \E c : inflight = {c}
      BY <3>2, FS_Singleton
    <3> QED BY <3>1, <3>2 DEF RequestsInv, InflightInv
  <2>2. /\ catalogue \subseteq offered /\ storages \subseteq StorageNames
        /\ edits \in 0..MaxEdits
    BY DEF RequestsInv, CatalogInv, OwnInv
  <2>3. answer.status \in {0, 200, 201, 204, 400, 404, 409, 500}
    BY DEF RequestsInv, OwnInv, Statuses
  <2>4. \A u, v \in units : u # v => u.name # v.name /\ u.operationID # v.operationID
    BY DEF RequestsInv, UnitsInv, UniqueUnits
  <2> QED BY <2>1, <2>2, <2>3, <2>4 DEF TypeOK
<1> QED BY <1>1, RequestsInvariant, PTL

\* Every unit and every worker cloned from one has the resources of a package that
\* some configuration of the API offered, for any catalogues and any restarts
\* between the activator's read of a template and its request.
THEOREM PackagesAreKept == Spec => []PackagedUnitsMatchCatalog
<1>1. RequestsInv => PackagedUnitsMatchCatalog
  <2> SUFFICES ASSUME RequestsInv, NEW u \in units
               PROVE  \E p \in offered :
                        /\ p.id = u.spec.packageID
                        /\ p.fields = u.spec.fields /\ p.gpu = u.spec.gpu
                        /\ p.allocation = [u.spec.allocation EXCEPT !.claimName = Blank]
    BY DEF PackagedUnitsMatchCatalog
  <2>1. PICK p \in offered : FromPackage(u.spec, p, claimNameOf(u.name))
    BY DEF RequestsInv, UnitsInv, ProperUnit
  <2>2. NormalPackage(p)
    BY DEF RequestsInv, CatalogInv
  <2>3. p.allocation = [[p.allocation EXCEPT !.claimName = claimNameOf(u.name)]
                          EXCEPT !.claimName = Blank]
    <3> DEFINE a == p.allocation
    <3>1. a = [deviceClassName |-> a.deviceClassName, claimName |-> Blank,
               claimRequestName |-> a.claimRequestName, count |-> a.count,
               capacity |-> a.capacity, selectors |-> a.selectors]
      BY <2>2 DEF NormalPackage
    <3> HIDE DEF a
    <3>2. ASSUME NEW x PROVE [a EXCEPT !.claimName = x]
               = [deviceClassName |-> a.deviceClassName, claimName |-> x,
                  claimRequestName |-> a.claimRequestName, count |-> a.count,
                  capacity |-> a.capacity, selectors |-> a.selectors]
      BY <3>1
    <3>3. a = [[a EXCEPT !.claimName = claimNameOf(u.name)] EXCEPT !.claimName = Blank]
      BY <3>1, <3>2
    <3> QED BY <3>3 DEF a
  <2> QED BY <2>1, <2>3 DEF FromPackage
<1> QED BY <1>1, RequestsInvariant, PTL

\* No two units ask for one resource claim: a worker's request leaves the claim of
\* its template behind, a claim is named after its unit, and names are unique.
THEOREM ClaimsStayExclusive == Spec => []ClaimsAreExclusive
<1>1. RequestsInv => ClaimsAreExclusive
  <2> SUFFICES ASSUME RequestsInv, NEW u \in units, NEW v \in units,
                      u.spec.allocation.claimName = v.spec.allocation.claimName
               PROVE  u = v
    BY DEF ClaimsAreExclusive
  <2>1. ASSUME NEW w \in units
        PROVE  StoredName(w.name) /\ w.spec.allocation.claimName = claimNameOf(w.name)
    <3>1. PICK p \in offered : FromPackage(w.spec, p, claimNameOf(w.name))
      BY DEF RequestsInv, UnitsInv, ProperUnit
    <3>2. NormalPackage(p)
      BY DEF RequestsInv, CatalogInv
    <3>3. "claimName" \in DOMAIN p.allocation
      BY <3>2 DEF NormalPackage
    <3> QED BY <3>1, <3>3 DEF FromPackage, RequestsInv, UnitsInv, ProperUnit
  <2>2. u.name = v.name
    BY <2>1, ClaimsNameUnits
  <2> QED BY <2>2 DEF RequestsInv, UnitsInv, UniqueUnits
<1> QED BY <1>1, RequestsInvariant, PTL

\* The controller accepts every stored spec, whatever was created, cloned and
\* updated: the API's normalisation leaves nothing that the controller's own would
\* refuse or read otherwise.
THEOREM SpecsRender == Spec => []StoredSpecsRender
<1>1. NormalInv => StoredSpecsRender
  <2> SUFFICES ASSUME NormalInv, NEW u \in units
               PROVE  /\ normalizeControllerGPUUnitAccess(u.spec.access, u.spec.template.ports) = {u.spec.access}
                      /\ resolveUnitSSHSpec(u.name, u.spec.ssh) # {}
                      /\ \E s \in resolveUnitServerlessSpec(u.spec.serverless) :
                           /\ s.enabled = u.spec.serverless.enabled
                           /\ s.enabled = unitServerlessEnabled(u.spec.serverless)
                           /\ s.requestID = u.spec.serverless.requestID
    BY DEF StoredSpecsRender
  <2>1. NormalSpec(u.spec) /\ UsableName(u.name)
    BY DEF NormalInv, NormalUnits
  <2>2. normalizeControllerGPUUnitAccess(u.spec.access, u.spec.template.ports) = {u.spec.access}
    BY <2>1 DEF normalizeControllerGPUUnitAccess, NormalSpec
  <2>3. resolveUnitSSHSpec(u.name, u.spec.ssh) # {}
    BY <2>1, SSHStable DEF NormalSpec, UsableName
  <2>4. NormalServerless(u.spec.serverless)
    BY <2>1 DEF NormalSpec
  <2> QED BY <2>2, <2>3, <2>4, ServerlessAgreed
<1> QED BY <1>1, NormalInvariant, PTL

\* For any settings of the operator, a serverless unit's sidecar loads from its
\* environment the configuration that the operator was given for it.
THEOREM SidecarsAreConfigured == Spec => []RenderedConfigSurvives
<1>1. RequestsInv /\ NormalInv => RenderedConfigSurvives
  <2> SUFFICES ASSUME RequestsInv, NormalInv, NEW u \in units, NEW c \in WorkerConfigs,
                      u.spec.serverless.enabled, NEW n \in NormalizedWorkerConfig(c),
                      NEW env \in desiredUnitServerlessSidecar(u.name, u.spec.serverless, c)
               PROVE  \E got \in LoadConfigFromEnv(env), s \in resolveUnitServerlessSpec(u.spec.serverless) :
                        /\ got.workerName = u.name /\ got.healthPort = n.healthPort
                        /\ \A f \in {"requestID", "socketPath", "invokePath", "healthPath"} : got[f] = s[f]
                        /\ got.dispatchRetry.maxDeliver = n.dispatchRetry.maxDeliver
                        /\ \A d \in 1..n.dispatchRetry.maxDeliver :
                             DelayForDelivery(got.dispatchRetry, d)
                               = BackoffDurations(n.dispatchRetry)
                                   [IF d <= Len(n.dispatchRetry.backoff) THEN d
                                    ELSE Len(n.dispatchRetry.backoff)]
    BY DEF RenderedConfigSurvives
  <2>1. NormalServerless(u.spec.serverless) /\ u.name.form = "plain" /\ u.name # Blank
    BY DEF NormalInv, NormalUnits, NormalSpec, UsableName, IsName
  <2>2. c.dispatchRetry.maxDeliver \in Int /\ c.dispatchRetry.backoff \in Seq(Texts)
    BY RequestAssumption
  <2> QED BY <2>1, <2>2, SidecarReads
<1> QED BY <1>1, RequestsInvariant, NormalInvariant, PTL

\* A worker renders to what its template rendered to when the activator read it,
\* whatever happened to the template, the storages and the catalogue in between.
THEOREM ClonesAreFaithful == Spec => CloneIsFaithful
<1>1. RequestsInv /\ NormalInv /\ [Next]_vars =>
        [\A c \in inflight \ inflight' : \A w \in units' \ units :
           Rendered(w.spec) = Rendered(c.from)]_vars
  <2> SUFFICES ASSUME RequestsInv, NormalInv, [Next]_vars,
                      NEW c \in inflight \ inflight', NEW w \in units' \ units
               PROVE  Rendered(w.spec) = Rendered(c.from)
    OBVIOUS
  <2>1. createWorker
    <3>1. inflight # inflight' /\ inflight # {}
      OBVIOUS
    <3> QED BY <3>1 DEF Next, vars, ConfigureRuntimePackages, handleCreateGPUUnit,
                        handleUpdateGPUUnit, handleDeleteGPUUnit, handleDeleteGPUStorage,
                        handleCreateGPUStorage, acquireWorker
  <2>2. PICK d \in inflight : CreateGPUUnit({}, d.req, {})
    BY <2>1 DEF createWorker
  <2>3. d = c /\ ProperRequest(c.req) /\ CatalogInv
    BY DEF RequestsInv, InflightInv
  <2>4. PICK n \in NormalizeCreateGPUUnitRequest(c.req, {}) :
          units' = units \cup {buildActiveUnitFromRequest(n, {})}
    BY <2>2, <2>3, CreateAdds
  <2>5. w.spec = [f \in SpecFields |-> n[f]]
    BY <2>4 DEF buildActiveUnitFromRequest
  <2> QED BY <2>3, <2>5, WorkersAreFaithful DEF NormalInv
<1> QED BY <1>1, RequestsInvariant, NormalInvariant, PTL DEF Spec, CloneIsFaithful

\* A create request that is repeated, in whatever spelling and with its mounts in
\* whatever order, is answered with the unit it made, whatever was updated, cloned,
\* deleted or configured in between, as long as its package and its storages are
\* what they were: the normal form is the same, and so is the hash.
THEOREM RetriesAreRecognised == Spec => RetryIsRecognised
<1>1. RequestsInv /\ KnownInv /\ [Next]_vars =>
        [\A u \in units :
           ( /\ answer'.asked = u.asked /\ u.asked # {}
             /\ Lookup(catalogue, u.spec.packageID) = u.package
             /\ ensureGPUStoragesExist(u.hash.storageMounts) )
           => /\ units' = units
              /\ answer'.status \in {200, 500}
              /\ answer'.status = 200 => answer'.unit = {u.name}]_vars
  <2> SUFFICES ASSUME RequestsInv, KnownInv, Next, NEW u \in units,
                      answer'.asked = u.asked, u.asked # {},
                      Lookup(catalogue, u.spec.packageID) = u.package,
                      ensureGPUStoragesExist(u.hash.storageMounts)
               PROVE  /\ units' = units
                      /\ answer'.status \in {200, 500}
                      /\ answer'.status = 200 => answer'.unit = {u.name}
    OBVIOUS
  <2>1. PICK q \in CreateRequests : handleCreateGPUUnit(q) /\ answer'.asked = {Said(q)}
    BY AnswersAreToCreates
  <2>2. u.asked = {Said(q)}
    BY <2>1
  <2> QED BY <2>1, <2>2, RetryAnswers
<1> QED BY <1>1, RequestsInvariant, KnownInvariant, PTL DEF Spec, RetryIsRecognised
=============================================================================
