------------------------------ MODULE MCBuilds ------------------------------
(* The two mailboxes that apply and the bare diff stand for mesa's five      *)
(* patches; one more mailbox does not apply.  Two DLLs, as fexcore has; two  *)
(* packages; three parts.                                                    *)
EXTENDS Builds, TLC

MCPatch == 1 .. 4
MCMailbox == {1, 3, 4}
MCFits == {1, 2, 4}

\* Nothing tells one DLL from another.
DllSymmetry == Permutations(Dlls)
=============================================================================
