------------------------------- MODULE Dashboard -------------------------------
(***************************************************************************)
(* What the dashboard (dashboard/render.py) makes of a log: the final      *)
(* status, and the links from the page to the evidence files.  A path is   *)
(* the sequence of its parts.                                              *)
(***************************************************************************)
EXTENDS EventLog

(* The events to which physical_demo.py gives the status "completed".      *)
PayloadCompleted(e) == e.type \in {"delivery.completed", "task.completed"}

(* Faulty variant of FinalStatus: the search decides, not the end.         *)
FinalStatusByDetection(log) ==
    IF log = <<>> THEN "unknown"
    ELSE IF Includes(log, "object.found") THEN "completed" ELSE "failed"

(* _final_status looks at the last event only.                             *)
FinalStatus(log) ==
    IF log = <<>> THEN "unknown"
    ELSE LET e == log[Len(log)]
         IN  IF e.type = "task.completed" \/ PayloadCompleted(e) THEN "completed"
             ELSE IF e.type = "task.failed" \/ e.code # NoCode THEN "failed"
             ELSE "unknown"

--------------------------------------------------------------------------------
EvidenceRoot == <<"data", "evidence">>

(* create_evidence_ref                                                     *)
EvidencePath(task, variant) == EvidenceRoot \o <<task, variant>>

(* The pictures that an event refers to.                                   *)
EvidenceRefs(e) ==
    CASE e.type = "object.found" -> {EvidencePath(e.task, "raw"), EvidencePath(e.task, "annotated")}
      [] e.type = "object.not_found" -> {EvidencePath(e.task, "raw")}
      [] OTHER -> {}

(* _is_safe_evidence_path of a relative path.                              *)
SafeEvidencePath(path) ==
    /\ \A i \in DOMAIN path : path[i] # ".."
    /\ IsPrefix(EvidenceRoot, path)

(* Faulty variant of DashboardRoot: the first data directory is taken.     *)
DashboardRootOutermost(output) ==
    LET parts == Front(output)
        data == {i \in DOMAIN parts : parts[i] = "data"}
    IN  IF data = {} THEN parts ELSE SubSeq(parts, 1, Min(data) - 1)

(* What lies above the innermost data directory of the output path.        *)
DashboardRoot(output) ==
    LET parts == Front(output)
        data == {i \in DOMAIN parts : parts[i] = "data"}
    IN  IF data = {} THEN parts ELSE SubSeq(parts, 1, Max(data) - 1)

(* os.path.relpath                                                         *)
RelativePath(path, start) ==
    LET common == Max({n \in 0..Min({Len(path), Len(start)}) :
                          SubSeq(path, 1, n) = SubSeq(start, 1, n)})
    IN  [i \in 1..(Len(start) - common) |-> ".."] \o SubSeq(path, common + 1, Len(path))

RelativeHref(path, output) ==
    RelativePath(DashboardRoot(output) \o path, Front(output))

(* The section of an event links to what it refers to, if that is safe.    *)
EvidenceLinks(e, output) ==
    {RelativeHref(path, output) : path \in {p \in EvidenceRefs(e) : SafeEvidencePath(p)}}

(* Where a browser looks for the link of a page.                           *)
Followed(href, output) ==
    LET ups == Cardinality({i \in DOMAIN href : href[i] = ".."})
        base == Front(output)
    IN  SubSeq(base, 1, Len(base) - ups) \o SubSeq(href, ups + 1, Len(href))
================================================================================
