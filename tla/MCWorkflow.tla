----------------------------- MODULE MCWorkflow -----------------------------
(* Small instances of TicketWorkflow and TaskBoard.                        *)
EXTENDS TicketScreen

CONSTANTS head, pm, dev, dev2, qa, req

MCRoleOf ==
  [u \in User |->
     CASE u = head -> "PROGRAMMING_HEAD" [] u = pm  -> "PROJECT_MANAGER"
       [] u = qa   -> "QA"               [] u = req -> "TICKET_REQUESTER"
       [] OTHER    -> "DEVELOPER"]

=============================================================================
