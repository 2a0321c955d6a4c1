----------------------------- MODULE MCRegistry -----------------------------
(* Values for the constants of Registry.                                   *)
EXTENDS Registry, TLC

CONSTANTS c1, c2, a1, p1, p2, k1, k2, t1, t2

Body(kind, c, a, p, k, ts, st, ap) ==
    [kind |-> kind, code |-> c, account |-> a, phone |-> p, profile |-> k, templates |-> ts,
     status |-> st, approval |-> ap]
Signup(c) == Body("signup", c, a1, p1, k1, {}, "unset", "unset")
Register(c, k, ts, st, ap) == Body("register", c, a1, p1, k, ts, st, ap)
Read(kind, p, k, ts) == Body(kind, c1, a1, p, k, ts, "unset", "unset")

\* Two clients, with and without a user, that register one profile and one
\* template, together and apart; and everybody who reads.
MCBodies ==
    {Signup(c1), Signup(c2),
     Body("create", c2, a1, p1, k1, {}, "INACTIVE", "unset"),
     Register(c1, k1, {t1, t2}, "unset", "unset"),
     Register(c1, k2, {t1}, "INACTIVE", "unset"),
     Register(c2, k1, {t1}, "unset", "REJECTED"),
     Read("alimtalk", p1, k1, {t1}),
     Read("alimtalk", p2, k1, {t1}),
     Read("brandtalk", p1, k2, {}),
     Read("reserve", p1, k1, {t1}),
     Read("list", p1, k1, {t1, t2}),
     Read("detail", p1, k1, {t2})}

\* A client, a registration that says that its template is rejected, and a
\* reservation of that template.
MCScheduleBodies ==
    {Signup(c1),
     Register(c1, k1, {t1}, "unset", "REJECTED"),
     Read("reserve", p1, k1, {t1})}

\* Requests are interchangeable.
MCSymmetry == Permutations(Requests)
=============================================================================
