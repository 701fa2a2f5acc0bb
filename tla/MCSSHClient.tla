----------------------------- MODULE MCSSHClient -----------------------------
(* Environments for SSHClient: three keys, the agent holding none or k1,   *)
(* identity files f1 (holding k2) and f2 (holding k3), every set of keys   *)
(* the server accepts, and the UserKnownHostsFile lists that reach each    *)
(* outcome of setConfigHostKeyCallback.                                    *)
EXTENDS SSHClient

CONSTANTS k1, k2, k3, f1, f2

MCKeys == {k1, k2, k3}

MCFileKey == (f1 :> k2) @@ (f2 :> k3)

MCKnownHosts ==
    {<<"file">>, <<"missing">>, <<"corrupt">>, <<"missing", "none">>, <<"badpath", "none">>}

MCEnvs ==
    [accepted : SUBSET MCKeys, unsupported : {{}, {k2}},
     hostKey : {"known", "mismatch"}, knownHosts : MCKnownHosts,
     files : {<<>>, <<f1>>, <<f1, f2>>}, hasAgent : BOOLEAN,
     agentKeys : {{}, {k1}}]
=============================================================================
