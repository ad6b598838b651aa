----------------------------- MODULE MCWorkflow -----------------------------
(* A school with two administrators and a teacher, and a user of another     *)
(* school; one seal (or vehicle) procedure and official documents.           *)
EXTENDS Workflow, TLC

CONSTANTS admin1, admin2, teacher, outsider

MCUsers    == {admin1, admin2, teacher, outsider}
MCRoleOf   == admin1 :> "Admin" @@ admin2 :> "Admin" @@ teacher :> "Teacher"
              @@ outsider :> "Admin"
MCTenantOf == [u \in MCUsers |-> IF u = outsider THEN "south" ELSE "north"]
=============================================================================
