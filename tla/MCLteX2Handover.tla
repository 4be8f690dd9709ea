--------------------------- MODULE MCLteX2Handover ---------------------------
EXTENDS LteX2Handover

\* The ideal RRC protocol and one downlink packet; the real protocol; links
\* of the core network that are slower than a UE that attaches again.
HandoverConfs == {[ideal |-> TRUE,  fastLinks |-> TRUE,  packets |-> 1, first |-> 1],
                  [ideal |-> FALSE, fastLinks |-> TRUE,  packets |-> 0, first |-> 1],
                  [ideal |-> TRUE,  fastLinks |-> FALSE, packets |-> 0, first |-> 1]}

\* The real protocol alone: only there does a message take time.
RealConfs == {[ideal |-> FALSE, fastLinks |-> TRUE, packets |-> 0, first |-> 1]}

=============================================================================
