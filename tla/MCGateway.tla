----------------------------- MODULE MCGateway ------------------------------
EXTENDS RoomGateway

CONSTANTS u1, u2, s1, s1b, s2, s2b, i1, i2

UserOf3 == (s1 :> u1) @@ (s1b :> u1) @@ (s2 :> u2)
InstanceOf3 == (s1 :> i1) @@ (s1b :> i2) @@ (s2 :> i2)
UserOf2 == (s1 :> u1) @@ (s2 :> u2)
InstanceOf2 == (s1 :> i1) @@ (s2 :> i2)
UserOf1 == (s1 :> u1)
InstanceOf1 == (s1 :> i1)
UserOfTabs == (s1 :> u1) @@ (s1b :> u1)
InstanceOfTabs == (s1 :> i1) @@ (s1b :> i2)
=============================================================================
