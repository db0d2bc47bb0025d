--------------------------- MODULE MCTenantAccess ---------------------------
(* The behaviours are of the kinds that MCPlans lists.  c1 and c2 are      *)
(* contracts of one company and share a feature; c3 is another company's.  *)
EXTENDS TenantAccess, TLC

CONSTANTS r1, r2, q1, q2, v1, v2, k1, k2, c1, c2, c3, i1, i2, i3, i4, f1, f2, free

MCCompanyOf == (c1 :> k1) @@ (c2 :> k1) @@ (c3 :> k2)
MCContractOf == (i1 :> c1) @@ (i2 :> c2) @@ (i3 :> c2) @@ (i4 :> c3)
MCPostpaid == (c1 :> {f1}) @@ (c2 :> {}) @@ (c3 :> {})
MCPrepaid == (c1 :> {f2}) @@ (c2 :> {f1}) @@ (c3 :> {})
MCFirstLink == (k1 :> v1) @@ (k2 :> v2)

Plan(active, late, pays, starts, ends, links, admin, faults) ==
  [active |-> active, late |-> late, pays |-> pays, starts |-> starts,
   ends |-> ends, links |-> links, admin |-> admin, faults |-> faults]

MCPlans ==
  {\* two runs, a payment and staff, with faults
   Plan({r1, r2, q1}, {i3}, {i3}, {}, {}, 0, 1, 2),
   \* two invoices of one workspace are paid at once, and a run
   Plan({r1, q1, q2}, {i2, i3}, {i2, i3}, {}, {}, 0, 1, 0),
   \* two workspaces, and staff
   Plan({r1, q1}, {i3, i4}, {i4}, {}, {}, 0, 2, 1),
   \* contracts begin, are paid and end, with faults, one after the other
   Plan({q1}, {}, {i1, i2, i3}, {c1}, {c1, c2}, 0, 0, 2),
   \* the same at the same time
   Plan({q1, q2}, {}, {i1, i2}, {c1}, {c1, c2}, 0, 0, 1),
   \* companies' workspaces change, with a fault
   Plan({q1}, {}, {i1, i2}, {c1}, {c2}, 3, 0, 1),
   \* the same at the same time
   Plan({q1, q2}, {}, {i1, i2}, {c1}, {}, 2, 0, 0),
   \* a workspace is archived while it is given features
   Plan({q1, q2}, {}, {i2}, {c1}, {c2}, 0, 1, 0)}
=============================================================================
