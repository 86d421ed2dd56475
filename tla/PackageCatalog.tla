--------------------------- MODULE PackageCatalog ---------------------------
(***************************************************************************)
(* The runtime packages of pkg/contract/package_catalog.go and the texts   *)
(* they and the requests are written in.                                   *)
(*                                                                         *)
(* A text has a word, what it says, and a form, how it is written: "plain" *)
(* is the canonical spelling; the others have spaces around it, capitals,  *)
(* a leading dot, no leading slash, or dots and doubled slashes in a path. *)
(* A word is a sequence: of the labels of a name, of the segments of a     *)
(* path after "/", of the parts between commas.                            *)
(*                                                                         *)
(* A normaliser returns the set of its possible results: none where the    *)
(* code returns a ValidationError, several where the result depends on the *)
(* order in which Go walks a map.                                          *)
(***************************************************************************)
EXTENDS Integers, Sequences, TLC

CONSTANTS Malformed,   \* words that no validation accepts
          Quantities   \* words that resource.ParseQuantity accepts

Text(word, form) == [word |-> word, form |-> form]
Plain(word) == Text(word, "plain")
Forms == {"plain", "spaced", "upper", "dotted", "relative", "unclean"}
Texts == [word : Seq(STRING), form : Forms]
Blank == Plain(<<>>)

TrimSpace(t) == IF t.form = "spaced" THEN Plain(t.word) ELSE t
ToLower(t) == IF t.form = "upper" THEN Plain(t.word) ELSE t
TrimDot(t) == IF t.form = "dotted" THEN Plain(t.word) ELSE t

\* A text that names something: not blank, plain and not malformed.
IsName(t) == t # Blank /\ t.form = "plain" /\ t.word \notin Malformed
ParseQuantity(t) == t.form = "plain" /\ t.word \in Quantities
\* The quantities whose sign is not positive, by example.
NotPositive == {Plain(<<"0">>), Plain(<<"-1Gi">>)}

Default(t, fallback) == IF t = Blank THEN fallback ELSE t

Accept(condition, result) == IF condition THEN {result} ELSE {}

\* The strings of a package that a request may repeat but not change.
Fields == {"specName", "cpu", "memory"}

NoAllocation ==
  [deviceClassName |-> Blank, claimName |-> Blank, claimRequestName |-> Blank,
   count |-> 0, capacity |-> <<>>, selectors |-> <<>>]

UnitDRAClaimRequestName == Plain(<<"gpu">>)
HAMi == Plain(<<"hami">>)
HAMiDRADeviceClassName == Plain(<<"hami-core-gpu">>)

-----------------------------------------------------------------------------
(***************************************************************************)
(* Capacity maps: functions from texts to texts.                           *)
(***************************************************************************)
\* Entries under another spelling of the key are dropped, if they agree.
mergePackageDRACapacity(capacity, key, value) ==
  LET same == {k \in DOMAIN capacity : TrimSpace(k) = key}
      keys == (DOMAIN capacity \ same) \cup {key}
  IN  Accept(\A k \in same : TrimSpace(capacity[k]) = value,
             [k \in keys |-> IF k = key THEN value ELSE capacity[k]])

\* Keys that differ in their spaces become one: which value it keeps depends
\* on the order of the map.
trimmedCapacity(capacity) ==
  LET names == {TrimSpace(k) : k \in DOMAIN capacity}
      from(n) == {TrimSpace(capacity[k]) : k \in {k \in DOMAIN capacity : TrimSpace(k) = n}}
  IN  IF /\ Blank \notin names
         /\ \A k \in DOMAIN capacity : ParseQuantity(TrimSpace(capacity[k]))
      THEN {c \in [names -> UNION {from(n) : n \in names}] : \A n \in names : c[n] \in from(n)}
      ELSE {}

normalizePackageDRAAllocation(a) ==
  LET device == TrimSpace(a.deviceClassName)
      selectors == [i \in DOMAIN a.selectors |-> TrimSpace(a.selectors[i])]
  IN  IF /\ device # Blank
         /\ TrimSpace(a.claimName) = Blank
         /\ a.count > 0
         /\ \A i \in DOMAIN selectors : selectors[i] # Blank
      THEN {[deviceClassName |-> device, claimName |-> Blank,
             claimRequestName |-> Default(TrimSpace(a.claimRequestName), UnitDRAClaimRequestName),
             count |-> a.count, capacity |-> c, selectors |-> selectors]
              : c \in trimmedCapacity(a.capacity)}
      ELSE {}

\* The allocation with what virtualGPU asks for.  Cores are written as a number.
normalizeRuntimePackageVirtualGPU(v, a) ==
  LET provider == ToLower(TrimSpace(v.provider))
      memory == TrimSpace(v.memory)
      filled == [a EXCEPT !.deviceClassName = Default(TrimSpace(@), HAMiDRADeviceClassName),
                          !.count = IF @ = 0 THEN 1 ELSE @]
      withMemory == mergePackageDRACapacity(a.capacity, Plain(<<"memory">>), memory)
      withCores(c) == IF v.cores = 0 THEN {c}
                      ELSE mergePackageDRACapacity(c, Plain(<<"cores">>), Plain(<<ToString(v.cores)>>))
  IN  IF provider = Blank THEN Accept(memory = Blank /\ v.cores = 0, a)
      ELSE IF /\ provider = HAMi
              /\ ParseQuantity(memory) /\ memory \notin NotPositive
              /\ v.cores \in 0..100
      THEN {[filled EXCEPT !.capacity = c] : c \in UNION {withCores(m) : m \in withMemory}}
      ELSE {}

\* RuntimePackageSpec.Normalized
NormalizedPackage(p) ==
  LET id == ToLower(TrimSpace(p.id))
      fields == [f \in Fields |-> TrimSpace(p.fields[f])]
  IN  IF /\ IsName(id) /\ Len(id.word) = 1
         /\ fields["specName"] # Blank
         /\ ParseQuantity(fields["cpu"]) /\ ParseQuantity(fields["memory"])
         /\ p.gpu > 0
      THEN {[id |-> id, fields |-> fields, gpu |-> p.gpu, allocation |-> a]
              : a \in UNION {normalizePackageDRAAllocation(m)
                               : m \in normalizeRuntimePackageVirtualGPU(p.virtualGPU, p.allocation)}}
      ELSE {}

-----------------------------------------------------------------------------
(***************************************************************************)
(* A catalogue is a sequence of packages in the configuration, and a set   *)
(* of them, one per ID, once it is normalised.                             *)
(***************************************************************************)
NormalizedCatalog(c) ==
  LET results == {r \in [DOMAIN c -> UNION {NormalizedPackage(c[i]) : i \in DOMAIN c}] :
                    \A i \in DOMAIN c : r[i] \in NormalizedPackage(c[i])}
  IN  {{r[i] : i \in DOMAIN r}
         : r \in {r \in results : \A i, j \in DOMAIN r : i # j => r[i].id # r[j].id}}

Lookup(catalog, id) == {p \in catalog : p.id = id}

\* A request may repeat a value of its package or leave it out.
rejectPackageStringOverride(got, want) == TrimSpace(got) \in {Blank, want}

\* MUTANT of ExpandRuntimePackage: only what the request leaves out is filled in.
ExpandBlanks(req, catalog) ==
  {[req EXCEPT !.packageID = p.id,
               !.fields = [f \in Fields |-> Default(req.fields[f], p.fields[f])],
               !.gpu = IF req.gpu = 0 THEN p.gpu ELSE req.gpu,
               !.allocation = p.allocation] : p \in Lookup(catalog, ToLower(TrimSpace(req.packageID)))}

ExpandRuntimePackage(req, catalog) ==
  {[req EXCEPT !.packageID = p.id, !.fields = p.fields, !.gpu = p.gpu, !.allocation = p.allocation]
     : p \in {p \in Lookup(catalog, ToLower(TrimSpace(req.packageID))) :
                /\ \A f \in Fields : rejectPackageStringOverride(req.fields[f], p.fields[f])
                /\ req.gpu \in {0, p.gpu}}}
=============================================================================
