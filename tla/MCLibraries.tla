---------------------------- MODULE MCLibraries -----------------------------
(* Values of the constants of Libraries for the model checker.              *)
EXTENDS Libraries

(* An octet of every kind that decoding tells apart, and ! and A.           *)
OctetsOf == {\h00, \h21, \h41, \h80, \h90, \hB0, \hC1, \hC3,
             \hE0, \hEA, \hED, \hF0, \hF4, \hF5, \hFF}

(* Both sides of every limit.                                               *)
UnitsOf == {\h41, \h7F, \h80, \h7FF, \h800, \hD7FF, \hD800, \hDBFF, \hDC00,
            \hDFFF, \hE000, \hFFFF}
PointsOf == UnitsOf \cup {\h10000, \h10FFFF, \h110000}

(* Around the stripes of 16 and 32 bytes.                                   *)
PiecesOf == {0, 1, 3, 4, 7, 15, 16, 17, 31, 32, 33, 48}

=============================================================================
