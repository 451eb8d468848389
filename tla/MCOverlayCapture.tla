---------------------------- MODULE MCOverlayCapture ----------------------------
EXTENDS OverlayCapture

MCShards == Pages \X Variants
MCBoot == [p \in Pages |-> 1]
=================================================================================
