------------------------------- MODULE RegMap -------------------------------
(***************************************************************************)
(* The generated table IsA8XXRegister of research/internal/pm4/regmap.go:  *)
(* the offsets of the registers that Mesa's a6xx.xml describes for gen8,   *)
(* by the block their names begin with.  The names, which are comments in  *)
(* the table, are left out.                                                *)
(***************************************************************************)
EXTENDS Integers

Spans(pairs) == UNION {p[1] .. p[2] : p \in pairs}

CP ==
    Spans({<<\h080a, \h080b>>, <<\h080d, \h080f>>, <<\h0811, \h0812>>,
           <<\h0814, \h0816>>, <<\h081c, \h081e>>, <<\h082a, \h082d>>,
           <<\h0830, \h0834>>, <<\h0840, \h0842>>, <<\h0844, \h0845>>,
           <<\h084b, \h088f>>, <<\h08a0, \h08bb>>, <<\h08c0, \h08c1>>,
           <<\h08d0, \h08e4>>, <<\h08f0, \h0900>>, <<\h0902, \h0904>>,
           <<\h0906, \h0908>>, <<\h090a, \h090c>>, <<\h090e, \h0910>>,
           <<\h0912, \h0914>>, <<\h0916, \h091e>>, <<\h0920, \h0926>>,
           <<\h0958, \h095b>>, <<\h0b00, \h0b01>>})
        \union {\h0808, \h0818, \h081a, \h0822, \h0825, \h0838, \h08c3, \h08c5,
                \h08c7, \h08cb, \h08e7, \h08e9, \h08ec, \h0b93}

CX ==
    {\h0087, \h0405}

DBGC ==
    Spans({<<\h0700, \h0704>>, <<\h0707, \h070a>>, <<\h070f, \h0716>>,
           <<\h0720, \h0724>>, <<\h0730, \h0732>>, <<\h0742, \h0744>>,
           <<\h0746, \h0747>>, <<\h0749, \h074a>>, <<\h0750, \h0755>>,
           <<\h0759, \h075c>>, <<\h0760, \h0763>>, <<\h0780, \h0786>>,
           <<\h0788, \h078d>>, <<\h07a0, \h07d5>>, <<\h07e0, \h07e6>>})
        \union {\h0740, \h0770, \h0790}

GBIF ==
    Spans({<<\h3c49, \h3c4a>>, <<\h3cc3, \h3cc4>>, <<\h3cc6, \h3cd5>>,
           <<\h3ce0, \h3ce5>>})
        \union {\h3c00}

GRAS ==
    Spans({<<\h8086, \h8090>>, <<\h80c0, \h80cf>>, <<\h8101, \h8104>>,
           <<\h810c, \h8110>>, <<\h8130, \h8131>>, <<\h8200, \h8213>>,
           <<\h8220, \h8225>>, <<\h8228, \h822d>>, <<\h8230, \h823b>>,
           <<\h8240, \h824f>>, <<\h8270, \h827f>>, <<\h829f, \h82a5>>,
           <<\h82d0, \h82df>>, <<\h8500, \h8508>>, <<\h8610, \h8615>>,
           <<\h8710, \h8715>>, <<\h8720, \h8723>>, <<\h8730, \h8735>>})
        \union {\h8080, \h8092, \h8108, \h8600, \h8700, \h8702}

PC ==
    Spans({<<\h9800, \h9802>>, <<\h9812, \h9816>>, <<\h9b00, \h9b06>>,
           <<\h9b08, \h9b0d>>, <<\h9b10, \h9b13>>, <<\h9b15, \h9b18>>,
           <<\h9e00, \h9e02>>, <<\h9e08, \h9e09>>, <<\h9e0d, \h9e0e>>,
           <<\h9e22, \h9e23>>, <<\h9e30, \h9e3f>>, <<\h9e63, \h9e64>>,
           <<\h9f00, \h9f0f>>})
        \union {\h980b, \h9e04, \h9e06, \h9e10, \h9e17, \h9e50, \h9e53, \h9f20,
                \h9f23}

RBBM ==
    Spans({<<\h0008, \h000b>>, <<\h0010, \h0013>>, <<\h0015, \h0016>>,
           <<\h002d, \h002f>>, <<\h0061, \h0062>>, <<\h0071, \h0073>>,
           <<\h007d, \h007e>>, <<\h009a, \h009d>>, <<\h019e, \h019f>>,
           <<\h01b0, \h01bd>>, <<\h01cc, \h01cf>>, <<\h01d4, \h01db>>,
           <<\h01e4, \h01eb>>, <<\h01f4, \h01f9>>, <<\h0200, \h0205>>,
           <<\h020c, \h0210>>, <<\h0216, \h0219>>, <<\h021e, \h0221>>,
           <<\h0226, \h023d>>, <<\h0256, \h0261>>, <<\h026e, \h0285>>,
           <<\h029e, \h02a5>>, <<\h02ae, \h02af>>, <<\h02b2, \h02b5>>,
           <<\h02ba, \h02bd>>, <<\h02c2, \h02c5>>, <<\h02e2, \h02e7>>,
           <<\h02ee, \h02f4>>, <<\h02fc, \h0307>>, <<\h0314, \h031b>>,
           <<\h0324, \h0325>>, <<\h0328, \h032f>>, <<\h0338, \h033f>>,
           <<\h0348, \h034d>>, <<\h0354, \h0357>>, <<\h035c, \h035f>>,
           <<\h0364, \h0367>>, <<\h036c, \h036e>>, <<\h0372, \h0377>>,
           <<\h0440, \h0444>>, <<\h05e0, \h05e3>>, <<\h05eb, \h05ec>>})
        \union {\h0018, \h001a, \h001c, \h001e, \h0029, \h0064, \h006a, \h009f,
                \h010b, \h01a1, \h0380, \h0382, \h0384, \h0386, \h0388, \h038a,
                \h038c, \h038e, \h0390, \h0392, \h0394, \h0396, \h0398, \h039a,
                \h0449, \h044c, \h0460, \h0500, \h058f, \h05e8}

RB ==
    Spans({<<\h8807, \h8808>>, <<\h8813, \h8816>>, <<\h88af, \h88cf>>,
           <<\h88e5, \h88e6>>, <<\h88f0, \h88f1>>, <<\h8930, \h8937>>,
           <<\h8950, \h8955>>, <<\h8960, \h8965>>, <<\h8e08, \h8e0a>>,
           <<\h8e77, \h8e78>>, <<\h8f00, \h8f07>>, <<\h8f10, \h8f15>>})
        \union {\h8800, \h881f, \h8866, \h88d3, \h8f29}

SP ==
    Spans({<<\haa04, \haa0c>>, <<\hab06, \hab07>>, <<\hab30, \habaf>>,
           <<\hae15, \hae19>>})
        \union {\ha826, \ha83e, \ha866, \ha897, \ha989, \ha9ab, \ha9be, \ha9c6,
                \hab09, \hab1f, \hab23, \hae01, \hae05, \hae0b, \hae10, \hae12,
                \hae76}

TPL1 ==
    Spans({<<\hb2d6, \hb2d7>>, <<\hb606, \hb61e>>, <<\hb620, \hb633>>})
        \union {\hb2c2, \hb2d2, \hb304, \hb309}

UCHE ==
    Spans({<<\h0e10, \h0e12>>, <<\h0e15, \h0e16>>, <<\h0e20, \h0e37>>,
           <<\h0f01, \h0f02>>})
        \union {\h0e04, \h0e06, \h0e08, \h0f04, \h0f06, \h0f08, \h0f0a, \h0f0c}

VFD ==
    Spans({<<\ha639, \ha63c>>})

VPC ==
    Spans({<<\h90c0, \h90c1>>, <<\h9180, \h9182>>, <<\h9184, \h9187>>,
           <<\h9240, \h924f>>, <<\h9252, \h9255>>, <<\h9300, \h9310>>,
           <<\h9312, \h931a>>, <<\h9670, \h967b>>, <<\h9690, \h969b>>,
           <<\h9740, \h9742>>, <<\h9750, \h975b>>})
        \union {\h9600, \h9602, \h9604, \h9680, \h9745}

VSC ==
    {\h0c02, \h0df0}

IsA8XXRegister ==
    UNION {CP, CX, DBGC, GBIF, GRAS, PC, RBBM, RB, SP,
           TPL1, UCHE, VFD, VPC, VSC}
=============================================================================
