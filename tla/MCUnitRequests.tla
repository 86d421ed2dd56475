--------------------------- MODULE MCUnitRequests ---------------------------
(* A small instance of UnitRequests.                                       *)
EXTENDS UnitRequests

Word(w) == Plain(<<w>>)
Spaced(w) == Text(<<w>>, "spaced")

MCMalformed == {<<"bad name">>}
MCQuantities == {<<"0">>, <<"-1Gi">>, <<"4">>, <<"8Gi">>, <<"16Gi">>, <<"30">>}
MCDurations == <<"2s">> :> 2 @@ <<"10s">> :> 10 @@ <<"30s">> :> 30 @@ <<"15s">> :> 15 @@ <<"5m">> :> 300
MCNameOrder ==
  <<"s1">> :> 1 @@ <<"s2">> :> 2 @@ <<"a">> :> 3 @@ <<"b">> :> 4 @@ <<"unit", "r", "worker", "x">> :> 5

Package(id, memory, capacity, virtual) ==
  [id |-> id, fields |-> [specName |-> Word("g1"), cpu |-> Spaced("4"), memory |-> Word(memory)], gpu |-> 1,
   virtualGPU |-> virtual,
   allocation |-> IF virtual.provider = Blank
                  THEN [NoAllocation EXCEPT !.deviceClassName = Word("gpu.nvidia.com"), !.count = 1]
                  ELSE [NoAllocation EXCEPT !.capacity = capacity]]
Whole == [provider |-> Blank, memory |-> Blank, cores |-> 0]
Shared == [provider |-> Text(<<"hami">>, "upper"), memory |-> Word("8Gi"), cores |-> 30]

P(memory) == Package(Text(<<"p">>, "upper"), memory, <<>>, Whole)

\* Two versions of one package, the second beside a virtual GPU; a catalogue that
\* is refused because two entries have the same ID, one with a negative memory.
MCCatalogues ==
  { <<P("8Gi")>>,
    <<P("16Gi"), Package(Word("v"), "8Gi", Spaced("memory") :> Spaced("8Gi"), Shared)>>,
    <<P("8Gi"), P("16Gi")>>,
    <<Package(Word("v"), "8Gi", <<>>, [Shared EXCEPT !.memory = Word("-1Gi")])>> }

Port(name, port) == [name |-> name, port |-> port, protocol |-> ""]
Ports12 == <<Port(Word("p1"), 80), Port(Spaced("p2"), 443)>>
Mount(name, path) == [name |-> name, mountPath |-> path]
Path(w) == Plain(<<"/", w>>)

Framework == [NoServerless EXCEPT !.requestID = Text(<<"r">>, "upper"),
                                  !.socketPath = Text(Append(SocketDir, "f.sock"), "unclean"),
                                  !.invokePath = Text(<<"/">>, "unclean"),
                                  !.healthPath = Text(<<"/", "ready">>, "relative")]
SSH == [NoSSH EXCEPT !.enabled = TRUE,
                     !.authorizedKeys = <<Spaced("k1"), Blank, Word("k1")>>,
                     !.text["serverAddr"] = Spaced("frps"),
                     !.text["domainSuffix"] = Text(<<"example">>, "dotted")]

A == [operationID |-> Word("op1"), name |-> Word("a"), packageID |-> Word("p"),
      fields |-> [f \in Fields |-> Blank], image |-> Word("i1"), gpu |-> 0,
      allocation |-> NoAllocation, template |-> [envs |-> <<Word("E")>>, ports |-> Ports12],
      access |-> [primaryPort |-> Word("p2"), scheme |-> Text(<<"https">>, "upper")],
      ssh |-> NoSSH, serverless |-> Framework,
      storageMounts |-> <<Mount(Word("s2"), Path("data")), Mount(Spaced("s1"), Text(<<"/", "ws">>, "unclean"))>>]
B == [A EXCEPT !.operationID = Word("op2"), !.name = Text(<<"b">>, "upper"), !.packageID = Word("v"),
               !.ssh = SSH, !.serverless = NoServerless, !.access = NoAccess, !.storageMounts = <<>>]

\* Two units; the first again in another spelling; its operation for another
\* unit; a request that overrides its package.
MCCreateRequests ==
  { A, B,
    [A EXCEPT !.operationID = Spaced("op1"), !.name = Text(<<"a">>, "upper"),
              !.storageMounts = <<A.storageMounts[2], A.storageMounts[1]>>],
    [A EXCEPT !.name = Word("b"), !.ssh = SSH, !.storageMounts = <<>>],
    [A EXCEPT !.fields["memory"] = Word("30")] }

NoUpdate == [image |-> Blank, template |-> NoTemplate, access |-> NoAccess,
             ssh |-> {}, serverless |-> {}, storageMounts |-> {}]

\* A template without the primary port; a scheme alone, and no mounts; a
\* mount, and nothing left of serverless but a path; ports that are not distinct.
MCUpdateRequests ==
  { [NoUpdate EXCEPT !.template.ports = <<Ports12[1]>>],
    [NoUpdate EXCEPT !.access.scheme = Word("http"), !.storageMounts = {<<>>}],
    [NoUpdate EXCEPT !.storageMounts = {<<A.storageMounts[1]>>},
                     !.serverless = {[NoServerless EXCEPT !.invokePath = Path("run")]},
                     !.ssh = {NoSSH}],
    [NoUpdate EXCEPT !.template.ports = <<Ports12[1], Ports12[1]>>] }

MCNames == {Word("a"), Text(<<"b">>, "upper")}
MCStorageNames == {Word("s1"), Word("s2")}
MCInvocations == {[id |-> i, requestID |-> Word("r"), suffix |-> "x"] : i \in {"i1"}}

Config(queue, max, backoff) ==
  [queue |-> queue, healthPort |-> 0, heartbeatInterval |-> Blank,
   dispatchRetry |-> [maxDeliver |-> max, backoff |-> backoff]]
MCWorkerConfigs ==
  { Config("valid", 0, <<>>), Config("valid", 4, <<Spaced("10s"), Word("2s")>>),
    Config("valid", 1, <<Word("2s"), Word("10s")>>), Config("missing", 0, <<>>) }
=============================================================================
