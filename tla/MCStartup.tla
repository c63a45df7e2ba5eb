----------------------------- MODULE MCStartup -----------------------------
(* Small instances of Startup: configurations that are right, and one wrong  *)
(* in each way validate looks for.                                           *)
EXTENDS Startup, TLC

Field(kind, name) == [kind |-> kind, name |-> name]
Rename(field, name, direction, anchor) ==
  [sourceField |-> field, rename |-> name, direction |-> direction, anchor |-> anchor]
Map(field, direction, anchor) == Rename(field, NONE, direction, anchor)

Gpu == <<Field("metric", "gpu_util"), Field("label", "pod"), Field("expression", "mem_util"),
         Field("host", "host_cpu")>>

Plain == [acceptable |-> TRUE, onExtraColumns |-> "abort", sources |-> <<Gpu>>,
          mapping |-> <<>>, enabled |-> FALSE]

\* A chain of anchors, one of them declared later, and a renamed column; mapping switched
\* off; two names that differ in capitals only.
Chained == [Plain EXCEPT !.mapping = <<Map("dept", "after", "pod"), Map("owner", "before", "dept"),
                                       Rename("pod", "room", "after", "pod"), Map("row", "after", "zone"),
                                       Map("zone", "before", "source")>>,
                         !.enabled = TRUE, !.onExtraColumns = "ask"]
Off     == [Plain EXCEPT !.mapping = <<Map("dept", "after", "pod")>>]
On      == [Off EXCEPT !.enabled = TRUE, !.onExtraColumns = "continue"]
Capital == [Off EXCEPT !.mapping = <<Map("Dept", "after", "pod"), Map("dept", "after", "pod")>>,
                       !.enabled = TRUE]
Sound == {Plain, Chained, Off, On, Capital}

Unsound ==
  {[Plain EXCEPT !.acceptable = FALSE], [Plain EXCEPT !.sources = <<>>]}
  \cup {[Plain EXCEPT !.sources = <<Gpu \o <<f>>>>] :
          f \in {Field("host", "gpu_util"), Field("label", "pod"), Field("metric", "ip"),
                 Field("metric", "namespace"), Field("label", "temp")}}
  \cup {[On EXCEPT !.mapping = @ \o <<m>>] :
          m \in {Map("dept", "after", "ip"), Rename("unit", "dept", "after", "ip"), Map("pod", "after", "ip"),
                 Map("room", "beside", "ip"), Map("room", "after", "floor")}}

AllConfigs == Sound \cup Unsound
FewConfigs == {Off, Capital}
Capitals == "Dept" :> "dept"
Notes == {"note"}
None == {}
Drops == {"dept"}
=============================================================================
