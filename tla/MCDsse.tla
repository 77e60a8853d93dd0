-------------------------------- MODULE MCDsse --------------------------------
(***************************************************************************)
(* Instances of Dsse: up to two signers, one of them possibly with a       *)
(* certificate and timestamps, against up to two verifiers.                *)
(***************************************************************************)
EXTENDS Dsse

CONSTANTS k1, k2, tsa, other

Certs == {Absent} \cup
  {c \in Certificate : c.supported \/ (~ c.chains /\ ~ c.meets)}

Stamps == {<<>>} \cup {<<[by |-> a, chains |-> c]>> : a \in {tsa, other}, c \in BOOLEAN}
  \cup {<<[by |-> tsa, chains |-> FALSE], [by |-> tsa, chains |-> TRUE]>>}

Plain(k) == [key |-> k, cert |-> Absent, stamps |-> <<>>]

Signers ==
  {<<[key |-> k1, cert |-> c, stamps |-> t]>> \o rest :
     c \in Certs, t \in Stamps,
     rest \in {<<>>, <<Plain(k1)>>, <<Plain(k2)>>, <<Absent>>}}
  \cup {<<>>, <<Absent>>}

MCInstance ==
  [signers : Signers,
   verifiers : {<<>>, <<k1>>, <<k2>>, <<Absent, k1>>, <<k2, k1>>, <<k1, k1>>},
   threshold : 0..2, authorities : {{}, {tsa}}, intact : BOOLEAN]
=============================================================================
