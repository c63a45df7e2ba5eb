---------------------------- MODULE MCExtractor ----------------------------
(* Small instances of Extractor.  Two endpoints are on one host, so that    *)
(* series of one card differ in the label the host is taken from.           *)
EXTENDS Extractor

ThreeEndpoints == {"a:1", "a:2", "b:1"}
HostOfEndpoint == [e \in ThreeEndpoints \cup {""} |->
  CASE e = "" -> "" [] e = "b:1" -> "b" [] OTHER -> "a"]
TwoCards == {"0", "1"}

Config(multi, metrics, fields) ==
  [multiHost |-> multi, metrics |-> metrics, hostFields |-> fields]

\* Fields and expressions over two metrics; two host_fields; one host.
AllConfigs == {Config(TRUE, {"used", "free"}, {}),
               Config(TRUE, {}, {"cpu", "mem"}),
               Config(FALSE, {"used"}, {"cpu"})}
=============================================================================
