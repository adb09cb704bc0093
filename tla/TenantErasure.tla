--------------------------- MODULE TenantErasure ---------------------------
(***************************************************************************)
(* What deleting a whole community promises.  While the tenant is served   *)
(* its content only grows; then the tenant is closed, and a closed tenant  *)
(* may still be reopened with everything it had.  Once erasing has begun   *)
(* there is no way back, nothing is ever written again, and the erasure    *)
(* is certified only when the object store and the database hold nothing   *)
(* of the tenant.                                                          *)
(***************************************************************************)
VARIABLES
    phase,    \* "serving", "closed", "erasing" or "erased"
    objects,  \* the tenant's keys in the object store
    rows      \* the tenant's rows in the database

tenantVars == <<phase, objects, rows>>

TenantInit == phase = "serving" /\ objects = {} /\ rows = {}

Serve ==
    /\ phase = "serving"
    /\ objects \subseteq objects'
    /\ rows \subseteq rows'
    /\ UNCHANGED phase

Close ==
    /\ phase = "serving"
    /\ phase' = "closed"
    /\ UNCHANGED <<objects, rows>>

Reopen ==
    /\ phase = "closed"
    /\ phase' = "serving"
    /\ UNCHANGED <<objects, rows>>

BeginErasure ==
    /\ phase = "closed"
    /\ phase' = "erasing"
    /\ UNCHANGED <<objects, rows>>

Erase ==
    /\ phase = "erasing"
    /\ objects' \subseteq objects
    /\ rows' \subseteq rows
    /\ UNCHANGED phase

Certify ==
    /\ phase = "erasing"
    /\ objects = {}
    /\ rows = {}
    /\ phase' = "erased"
    /\ UNCHANGED <<objects, rows>>

TenantNext == Serve \/ Close \/ Reopen \/ BeginErasure \/ Erase \/ Certify

TenantSpec == TenantInit /\ [][TenantNext]_tenantVars
=============================================================================
