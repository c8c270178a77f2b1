------------------------------ MODULE Tenants ------------------------------
(***************************************************************************)
(* Quotas of LXC tenants (backend/lxc_manager.py): a dictionary in memory  *)
(* and, for each tenant, a cgroup of the kernel with one file per limit.   *)
(* The cgroups outlive the process and the dictionary does not.            *)
(*                                                                         *)
(* Handlers are single steps, but not atomic ones: a directory may be      *)
(* refused, a file may fail to be written after others were, and an update *)
(* sets one attribute after another until one is refused.                  *)
(***************************************************************************)
EXTENDS Integers, FiniteSets, Dicts

CONSTANTS
    TenantIds,
    MAX_TENANTS,     \* LXC_MAX_TENANTS
    Limits,          \* whole numbers sent as a limit
    NotANumber,      \* a value sent as one that no number is compared with
    NoLimit,         \* what a file holds before anything is written to it
    MaxTenantFaults  \* bound: calls of the kernel that fail

ASSUME TenantsAssumption ==
    /\ MAX_TENANTS \in Nat /\ MaxTenantFaults \in Nat
    /\ Limits \subseteq Int /\ {NotANumber, NoLimit} \cap Int = {}

VARIABLES
    enforced,      \* LXC and cgroups v2, with its controllers, were there when
                   \* the process started
    quotas,        \* _quotas
    cgroups,       \* the directories below /sys/fs/cgroup/lxc
    tenantFaults,
    excused        \* tenants something went wrong for: a call of the kernel
                   \* failed, an update was refused half way, a tenant was
                   \* renamed, or the process ended

tenantVars == <<enforced, quotas, cgroups, tenantFaults, excused>>

\* The limits of a quota, and the files that ever hold one, in the order they
\* are written.  The kernel refuses what is written to io.max third, as it names
\* no device, and pids.max is then not tried.
File == {"cpu.max", "memory.max", "io.max", "pids.max"}
Written == {"cpu.max", "memory.max"}

\* What a value is cut down to; the units are left out.
Cap(f) == CASE f = "cpu.max" -> 128 [] f = "memory.max" -> 1048576

Clamp(f, v) == IF v > Cap(f) THEN Cap(f) ELSE IF v < 0 THEN 0 ELSE v

Unlimited == [f \in Written |-> NoLimit]

Wanted(limits) == [f \in Written |-> Clamp(f, limits[f])]

\* All limits are numbers, and that of the processor is none the kernel refuses.
Numbers(limits) == \A f \in File : limits[f] # NotANumber
Acceptable(limits) == Numbers(limits) /\ limits["cpu.max"] > 0

Quota == [tenant_id : TenantIds, limits : [File -> Limits \cup {NotANumber}]]

TenantsTypeOK ==
    /\ enforced \in BOOLEAN
    /\ IsDict(quotas, TenantIds, Quota)
    /\ IsDict(cgroups, TenantIds, [Written -> Int \cup {NoLimit}])
    /\ tenantFaults \in 0..MaxTenantFaults
    /\ excused \subseteq TenantIds

TenantsInit ==
    /\ enforced \in BOOLEAN
    /\ quotas = EmptyDict
    /\ cgroups = EmptyDict
    /\ tenantFaults = 0
    /\ excused = {}

Faults(ts) ==
    /\ tenantFaults < MaxTenantFaults
    /\ tenantFaults' = tenantFaults + 1
    /\ excused' = excused \cup ts

\* mkdir(exist_ok=True)
Made(t) == IF t \in DOMAIN cgroups THEN cgroups ELSE Put(cgroups, t, Unlimited)

\* Mutation: limits that are set when the directory is there already stay.
ApplyLimitsOnce(q, others) ==
    /\ cgroups' = IF enforced /\ q.tenant_id \notin DOMAIN cgroups
                  THEN Put(cgroups, q.tenant_id, Wanted(q.limits)) ELSE cgroups
    /\ excused' = excused \cup others
    /\ UNCHANGED tenantFaults

\* _apply_cgroup_limits, after the quota was stored; others are tenants to be
\* excused whatever happens.
ApplyLimits(q, others) ==
    LET t == q.tenant_id IN
    \/ \* min() raises TypeError before the first file is written (500), or
       \* cpu.max is refused and ends the writing (a warning)
       /\ cgroups' = IF ~enforced THEN cgroups
                     ELSE IF Acceptable(q.limits) THEN Put(cgroups, t, Wanted(q.limits))
                     ELSE Made(t)
       /\ excused' = excused \cup others
       /\ UNCHANGED tenantFaults
    \/ \* the directory is refused (500)
       /\ enforced /\ t \notin DOMAIN cgroups
       /\ Faults(others \cup {t})
       /\ UNCHANGED cgroups
    \/ \* a call fails before the first file or the second (a warning)
       /\ enforced /\ Acceptable(q.limits)
       /\ Faults(others \cup {t})
       /\ \/ cgroups' = Made(t)
          \/ cgroups' = Put(cgroups, t, [Made(t)[t] EXCEPT
                                            !["cpu.max"] = Wanted(q.limits)["cpu.max"]])

\* create_tenant
CreateTenant(t, v) ==
    /\ Cardinality(DOMAIN quotas) < MAX_TENANTS
    /\ t \notin DOMAIN quotas
    /\ LET q == [tenant_id |-> t, limits |-> [f \in File |-> v]] IN
       /\ quotas' = Put(quotas, t, q)
       /\ ApplyLimits(q, {})
    /\ UNCHANGED enforced

\* update_quota with one limit.
UpdateLimit(t, f, v) ==
    /\ t \in DOMAIN quotas
    /\ quotas' = [quotas EXCEPT ![t].limits[f] = v]
    /\ ApplyLimits(quotas'[t], {})
    /\ UNCHANGED enforced

\* ... with a limit and then a name that is no field: a ValueError (400), with
\* the limit stored and not applied.
UpdateRefused(t, f, v) ==
    /\ t \in DOMAIN quotas
    /\ quotas' = [quotas EXCEPT ![t].limits[f] = v]
    /\ excused' = excused \cup {quotas[t].tenant_id}
    /\ UNCHANGED <<enforced, cgroups, tenantFaults>>

\* ... with another tenant_id: the key in the dictionary stays.  The limits of
\* the new name are those of whoever was applied last, so both are excused.
RenameTenant(t, u) ==
    /\ t \in DOMAIN quotas
    /\ u # quotas[t].tenant_id
    /\ quotas' = [quotas EXCEPT ![t].tenant_id = u]
    /\ ApplyLimits(quotas'[t], {t, u, quotas[t].tenant_id})
    /\ UNCHANGED enforced

\* remove_tenant: the directory stays when it is in use.
RemoveTenant(t) ==
    /\ t \in DOMAIN quotas
    /\ quotas' = Drop(quotas, t)
    /\ LET u == quotas[t].tenant_id IN
       \/ /\ cgroups' = IF enforced THEN Drop(cgroups, u) ELSE cgroups
          /\ UNCHANGED <<tenantFaults, excused>>
       \/ /\ enforced
          /\ Faults({u})
          /\ \/ u \notin DOMAIN cgroups /\ UNCHANGED cgroups
             \/ cgroups' = Made(u)
    /\ UNCHANGED enforced

\* get_usage creates the directory it reads.
GetUsage(t) ==
    /\ t \in DOMAIN quotas
    /\ LET u == quotas[t].tenant_id IN
       \/ /\ cgroups' = IF enforced THEN Made(u) ELSE cgroups
          /\ UNCHANGED <<tenantFaults, excused>>
       \/ enforced /\ u \notin DOMAIN cgroups /\ Faults({u}) /\ UNCHANGED cgroups
    /\ UNCHANGED <<enforced, quotas>>

TenantRequest ==
    \E t \in TenantIds :
        \/ \E v \in Limits : CreateTenant(t, v)
        \/ \E f \in File, v \in Limits \cup {NotANumber} :
             UpdateLimit(t, f, v) \/ UpdateRefused(t, f, v)
        \/ \E u \in TenantIds : RenameTenant(t, u)
        \/ RemoveTenant(t)
        \/ GetUsage(t)

\* The process ends and starts again: nothing is loaded, and tenants of before
\* are those of nobody until they are created again.
TenantsLost ==
    /\ quotas' = EmptyDict
    /\ enforced' \in BOOLEAN
    /\ excused' = excused \cup DOMAIN quotas \cup DOMAIN cgroups
    /\ UNCHANGED <<cgroups, tenantFaults>>

-----------------------------------------------------------------------------
(* The kernel limits the processor and the memory of exactly the tenants   *)
(* there are, and to the quotas that are shown for them, whatever tenants  *)
(* are created, updated, removed and looked at, except for one something   *)
(* went wrong for, and for the value of a quota that cannot be applied:    *)
(* create_tenant, update_quota, remove_tenant and get_usage of             *)
(* backend/lxc_manager.py.  Nothing limits input and output or the number  *)
(* of processes, whatever the quota says.                                  *)
LimitsInForce ==
    enforced =>
        \A t \in TenantIds \ excused :
            /\ t \in DOMAIN cgroups <=> t \in DOMAIN quotas
            /\ t \in DOMAIN quotas =>
                 /\ quotas[t].tenant_id = t
                 /\ Acceptable(quotas[t].limits) => cgroups[t] = Wanted(quotas[t].limits)
=============================================================================
