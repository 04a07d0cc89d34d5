----------------------------- MODULE Workspace -----------------------------
(***************************************************************************)
(* The smaller services side by side.  They share users, teams and         *)
(* requests and write no table of one another, so what one of them does is *)
(* the same whatever the others do: requests go to one, `open`, and the    *)
(* others rest.                                                            *)
(***************************************************************************)
EXTENDS Attendance, Documents, Retrospectives, NetworkWhitelist, Notifications, TaskThreads,
        Integrations, Reports

VARIABLE open

AnyProbe == CHOOSE p \in ProbeShape : p.asked = NoTeam

Services == {"access", "attendance", "documents", "retrospectives", "whitelist", "notifications",
             "threads", "integrations", "reports"}

accessVars == <<probe, asks>>
vars == <<accessVars, attendanceVars, documentVars, retroVars, whitelistVars, noticeVars, threadVars,
          integrationVars, reportVars, open>>

\* Only the open one has a choice of where to start.
Init ==
  /\ open \in Services
  /\ open = "access" \/ probe = AnyProbe
  /\ AccessInit /\ AttendanceInit /\ DocumentsInit /\ RetrosInit /\ WhitelistInit /\ NotificationsInit
  /\ ThreadsInit /\ IntegrationsInit /\ ReportsInit

Next ==
  \/ /\ open = "access" /\ AccessNext
     /\ UNCHANGED <<attendanceVars, documentVars, retroVars, whitelistVars, noticeVars, threadVars,
                    integrationVars, reportVars, open>>
  \/ /\ open = "attendance" /\ AttendanceNext
     /\ UNCHANGED <<accessVars, documentVars, retroVars, whitelistVars, noticeVars, threadVars,
                    integrationVars, reportVars, open>>
  \/ /\ open = "documents" /\ DocumentsNext
     /\ UNCHANGED <<accessVars, attendanceVars, retroVars, whitelistVars, noticeVars, threadVars,
                    integrationVars, reportVars, open>>
  \/ /\ open = "retrospectives" /\ RetrosNext
     /\ UNCHANGED <<accessVars, attendanceVars, documentVars, whitelistVars, noticeVars, threadVars,
                    integrationVars, reportVars, open>>
  \/ /\ open = "whitelist" /\ WhitelistNext
     /\ UNCHANGED <<accessVars, attendanceVars, documentVars, retroVars, noticeVars, threadVars,
                    integrationVars, reportVars, open>>
  \/ /\ open = "notifications" /\ NotificationsNext
     /\ UNCHANGED <<accessVars, attendanceVars, documentVars, retroVars, whitelistVars, threadVars,
                    integrationVars, reportVars, open>>
  \/ /\ open = "threads" /\ ThreadsNext
     /\ UNCHANGED <<accessVars, attendanceVars, documentVars, retroVars, whitelistVars, noticeVars,
                    integrationVars, reportVars, open>>
  \/ /\ open = "integrations" /\ IntegrationsNext
     /\ UNCHANGED <<accessVars, attendanceVars, documentVars, retroVars, whitelistVars, noticeVars,
                    threadVars, reportVars, open>>
  \/ /\ open = "reports" /\ ReportsNext
     /\ UNCHANGED <<accessVars, attendanceVars, documentVars, retroVars, whitelistVars, noticeVars,
                    threadVars, integrationVars, open>>

Spec == Init /\ [][Next]_vars

\* The variables of every service have their types (all of the modules).
WorkspaceTypeOK ==
  /\ open \in Services
  /\ AccessTypeOK /\ AttendanceTypeOK /\ DocumentsTypeOK /\ RetrosTypeOK /\ WhitelistTypeOK
  /\ NotificationsTypeOK /\ ThreadsTypeOK /\ IntegrationsTypeOK /\ ReportsTypeOK
=============================================================================
