---------------------------- MODULE MCAuthAccounts ----------------------------
EXTENDS AuthAccounts

CONSTANTS a, m, w1, w2, g

Free == <<a, 0>>

Register(n, w) == [op |-> "register", name |-> n, mail |-> m, pass |-> w]
Login(k, w) == [op |-> "login", key |-> k, pass |-> w]

\* Registrations and Google logins that want the same username and have the same
\* address, a login with a wrong password and one by that address.
MCInputs == {Register(Free, w1), Login(Free, w2), Login(m, w1),
             [op |-> "google", sub |-> g, base |-> a, mail |-> m]}
===============================================================================
