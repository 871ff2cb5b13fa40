------------------------------ MODULE MCNotify ------------------------------
(***************************************************************************)
(* Instances of Notify for TLC.                                            *)
(***************************************************************************)
EXTENDS Notify, Limits, TLC

CONSTANTS f1, f2, s1, a1, p1, slack, mail, n1, n2

\* A CVE match and a port.
CvePort == (f1 :> "cves") @@ (p1 :> "ports")

\* slack takes everything from medium, mail only high and critical.
Thresholds == (slack :> 2) @@ (mail :> 3)

AnyChannels == {{slack}, {slack, mail}}

\* The tenant has switched the families off that have no items here; the program has
\* nothing of its own, or junk and a filter with it, or wants critical CVE matches only.
KeyOf == [findings |-> "alert_findings", secrets |-> "alert_secrets", leaks |-> "alert_leaks",
          cves |-> "alert_cves", assets |-> "alert_new_assets", ports |-> "alert_new_ports"]
Tenant == [k \in {KeyOf[f] : f \in Family \ {"cves", "ports"}} |-> FALSE]
Programs ==
  {<<>>,
   "finding_min_severity" :> Junk @@ "port_filter" :> {Junk} @@ "colour" :> Junk,
   "finding_min_severity" :> "critical" @@ "alert_new_ports" :> FALSE}

Switching ==
  {LET used == effective_alert_policy(p, Tenant)
   IN  [floor |-> rank[used["finding_min_severity"]],
        on |-> {f \in Family : used[KeyOf[f]]}] : p \in Programs}

\* The stages are interchangeable.
Symmetry == Permutations(Notifiers)
=============================================================================
