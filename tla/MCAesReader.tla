---------------------------- MODULE MCAesReader ----------------------------
EXTENDS AesReader, TLC

CONSTANTS o1, o2, o3, f1, f2, f3

\* Two folders with different salts, one without a salt that has too many cycles.
MCSaltOf == (f1 :> <<1, 2>>) @@ (f2 :> <<3, 4>>) @@ (f3 :> <<>>)
MCIvOf == (f1 :> <<5, 6>>) @@ (f2 :> <<7, 8, 9>>) @@ (f3 :> <<5>>)
MCCyclesOf == (f1 :> 2) @@ (f2 :> 2) @@ (f3 :> 4)

\* Shorter and longer than the IVs.
MCPasswords == {<<11>>, <<11, 12>>, <<11, 12, 13, 14>>}

\* One folder, opened twice with a password that fits.
MCShort == {<<11>>}

Symmetry == Permutations(Opens)
=============================================================================
