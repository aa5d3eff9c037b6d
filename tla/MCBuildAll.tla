----------------------------- MODULE MCBuildAll -----------------------------
(* packages.yml as it is.                                                    *)
EXTENDS BuildAll

MCPackages == <<"mesa", "fexcore", "wine", "box64", "dxvk", "benchmark", "winlator">>
=============================================================================
