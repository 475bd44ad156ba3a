-------------------------- MODULE MCEventPipeline --------------------------
(* Small instances of EventPipeline: a message with two recipients, a      *)
(* message of a bot, and an event the notifications module ignores.        *)
EXTENDS EventPipeline, TLC

CONSTANTS u1, u2, h1, h2, c1

MCUsers == {u1, u2}
MCHooks == {h1, h2}
MCChannels == {c1}
OneMessage == {1}
OneBotMessage == {2}
MessageAndOther == {1, 3}
AllKinds == 1..3

MCKind == [e \in Events |-> <<"message", "integration", "other">>[e]]
MCChannelOf == [e \in Events |-> c1]
MCRecipients == [e \in Events |-> IF e = 3 THEN {} ELSE Users]

(* h1 takes everything; h2 takes messages of channel c1 only.              *)
MCWants == [h \in Hooks |-> IF h = h1 THEN {} ELSE {"MessageCreated"}]
MCSlugOf == [h \in Hooks |-> IF h = h1 THEN Null ELSE c1]
=============================================================================
