---------------------- MODULE MCTransactionalInstaller ----------------------
\* Two releases that share the sound; the companion belongs to xPilot 4.
EXTENDS TransactionalInstaller

CONSTANTS plugin, sound, bridge, one, two

MCFile == {plugin, sound, bridge}
MCBridgeFile == {bridge}
MCContent == {Absent, one, two}

MCPayload ==
    <<[f \in File |-> one],
      [f \in File |-> IF f = sound THEN one ELSE two]>>

=============================================================================
