------------------------------ MODULE MCAccounts ------------------------------
(***************************************************************************)
(* Accounts for TLC: two people with one local part, hence one customer    *)
(* name for each provider, and one domain for SAML.                        *)
(***************************************************************************)
EXTENDS Accounts, TLC

CONSTANTS demo, ann, r1, r2, r3, s1, w1, w2

SomeNames == {"Demo Company", "Acme", "sso_google", "sso_yandex", "saml_acme"}
NameOf == ("google" :> "sso_google") @@ ("yandex" :> "sso_yandex") @@ ("saml" :> "saml_acme")
SomeSsoName == [x \in (Providers \cup {"saml"}) \X Addresses |-> NameOf[x[1]]]

Alike == Permutations({r1, r2, r3}) \cup Permutations({w1, w2})
=============================================================================
