---------------------------- MODULE MCIssuerNames ----------------------------
(* Names of issuers that a careless comparison would take for each other,  *)
(* and what the sources put around a name.                                 *)
EXTENDS IssuerNames

MCLetters == {"A", "B", "J", "R"}
MCNominalValues == {"3I", "5P", "USD00"}

Plain(texts) == [k \in DOMAIN texts |-> [text |-> texts[k], hyphenated |-> FALSE]]
\* A name whose first token stands behind a hyphen.
Hyphen(texts) == [k \in DOMAIN texts |-> [text |-> texts[k], hyphenated |-> k = 1]]

MCIssuers ==
  {Plain(i) : i \in {<<"ROCHE">>, <<"ROCHE", "BOBOIS">>, <<"CREDIT", "AG", "BANK">>,
                     <<"CREDIT", "BANK">>, <<"SAINSBURY">>, <<"SAINSBURY", "J">>,
                     <<"J", "SAINSBURY">>, <<"3I">>, <<"BT">>, <<"BRITANNIA">>,
                     <<"GEORG", "FISCHER">>, <<"FISCHER", "GEORG">>}}
    \cup {Plain(<<"AIR", "FRANCE">>) \o Hyphen(<<"KLM">>), Plain(<<"AIR", "FRANCE">>)}

MCBefore == {Plain(b) : b \in {<<>>, <<"AB">>, <<"TELEFONAKTIEBOLAGET">>}}

\* A class word stands behind a legal form here: behind a single letter of the name it makes
\* that letter a class, which the code accepts.
MCAfter ==
  {Plain(a) : a \in {<<>>, <<"AKTIENGESELLSCHAFT">>, <<"SOCIETE", "ANONYME">>,
                     <<"PUBLIC", "LIMITED", "COMPANY">>, <<"GROUP", "ORD">>,
                     <<"PLC", "ORD", "5P">>, <<"HOLDINGS", "PLC", "CLS", "A", "ORD", "USD00">>}}
    \cup {Plain(<<"AS">>) \o Hyphen(<<"B">>), Plain(<<"PLC">>) \o Hyphen(<<"CL", "A">>),
          Plain(<<"AB">>) \o Hyphen(<<"A", "SHARES">>), Hyphen(<<"REG">>),
          Hyphen(<<"R", "SHS">>), Plain(<<"SA">>) \o Hyphen(<<"UNSPON", "ADR">>)}
=============================================================================
