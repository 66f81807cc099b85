----------------------------- MODULE MCAccounts -----------------------------
EXTENDS Accounts, TLC

CONSTANTS tabA, tabB, tabC, req1, req2

MCBrowserOf == (tabA :> "one") @@ (tabB :> "one") @@ (tabC :> "two")

Ticks(n) == {<<"tick", k>> : k \in 1 .. n}
All(op) == {op} \X Tabs

MCScripts == {
  {<<"login", tabA>>, <<"reload", tabA>>, <<"reload", tabB>>, <<"lose", tabA>>} \union Ticks(3),
  {<<"login", tabA>>, <<"socket", tabA>>, <<"reload", tabB>>, <<"logout", tabB>>} \union Ticks(2),
  {<<"login", tabA>>, <<"socket", tabA>>, <<"logout", tabA>>, <<"lose",tabA>>} \union Ticks(3),
  {<<"login", tabA>>, <<"reload", tabB>>,  <<"logout-all", tabB>>} \union Ticks(2),
  {<<"login", tabA>>, <<"login", tabC>>, <<"logout-all", tabC>>, <<"socket",tabA>>} \union Ticks(2),
  All("mistype") \union {<<"login", tabA>>} \union Ticks(2),
  All("register") \union All("verify") \union {<<"resend", tabA>>},
  {<<"register", tabA>>, <<"verify", tabA>>, <<"verify", tabB>>, <<"resend", tabB>>, <<"login", tabC>>} \union Ticks(2),
  {<<"forgot", tabA>>, <<"forgot", tabB>>, <<"reset", tabA>>, <<"reset", tabB>>, <<"login", tabC>>},
  {<<"forgot", tabA>>, <<"reset", tabA>>, <<"login", tabB>>, <<"login", tabC>>},
  {<<"forgot", tabA>>, <<"reset", tabA>>, <<"login", tabC>>, <<"socket", tabC>>} \union Ticks(1),
  {<<"login", tabA>>, <<"login", tabC>>, <<"logout-all", tabA>>, <<"logout-all", tabC>>} }
=============================================================================
