-------------------------- MODULE MCPoolCollector --------------------------
(* Two feeds, three nodes, one of them in both feeds and with a country in
   only one.  x1 and x2 do not parse.  A fingerprint is a hash of the whole
   configuration, so entries that share one agree in type and transport. *)
EXTENDS PoolCollector, TLC

Entry(fp, form, type, host, transport, fragment) ==
    [fp |-> fp, form |-> form, type |-> type, host |-> host, transport |-> transport,
     fragment |-> fragment, complete |-> TRUE, local |-> FALSE]
TwoFeeds ==
    1 :> {Entry("n1", "json", "hysteria2", "public", "none", "none"),
          Entry("n2", "json", "vless", "public", "ws", "none"),
          Entry("x1", "json", "vless", "own", "ws", "none")} @@
    2 :> {Entry("n2", "uri", "vless", "public", "ws", "de"),
          Entry("n3", "uri", "trojan", "public", "grpc", "none"),
          Entry("x2", "uri", "vless", "public", "xhttp", "de")}
ExitGroup == "n1" :> "auto" @@ "n2" :> "auto" @@ "n3" :> "all"
TwoCountries == 1 :> "none" @@ 2 :> "none"
=============================================================================
