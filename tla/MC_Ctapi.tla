-------------------------------- MODULE MC_Ctapi --------------------------------
EXTENDS Ctapi, TLC

CONSTANTS r1, r2, r3, b1, kaan, ctapi, towitoko

FirstFour == <<b1, kaan, ctapi, towitoko>>
ReaderSymmetry == Permutations(Readers)

\* The functions before the first that is missing are what matters.
Prefixes == {{}, {"init"}, {"init", "data"}}
AnyExports ==
    {kaan :> k @@ ctapi :> c @@ towitoko :> Functions :
        k \in Prefixes, c \in Prefixes \cup {Functions}}
KaanPartly == {e \in AnyExports : e[ctapi] = Functions /\ e[kaan] = {"init"}}
===============================================================================
