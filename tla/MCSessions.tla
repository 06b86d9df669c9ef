----------------------------- MODULE MCSessions -----------------------------
EXTENDS Sessions, TLC

\* The renewing requests are interchangeable; only safety runs use this.
RenewalSymmetry == Permutations(Renewal)

=============================================================================
