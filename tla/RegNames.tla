------------------------------ MODULE RegNames ------------------------------
(***************************************************************************)
(* The generated table RegNameByOffset of research/internal/pm4/regmap.go: *)
(* the offsets that have a name, in the order of the table.  A definition  *)
(* is the part of it from one offset to the next definition's.  The names  *)
(* are left out.                                                           *)
(***************************************************************************)
EXTENDS RegMap

From0000 ==
    Spans({<<\h0001, \h0005>>, <<\h0007, \h0013>>, <<\h0015, \h0018>>,
           <<\h001a, \h001c>>, <<\h001e, \h001f>>, <<\h002d, \h0030>>,
           <<\h0037, \h003a>>, <<\h0042, \h0046>>, <<\h0061, \h0062>>,
           <<\h0071, \h0073>>, <<\h007d, \h007e>>, <<\h009a, \h009d>>,
           <<\h00ad, \h00ae>>, <<\h00b0, \h00fb>>})
        \union {\h0029, \h0064, \h006a, \h0087, \h009f}

From0100 ==
    Spans({<<\h0100, \h012b>>, <<\h019e, \h019f>>, <<\h01b0, \h01bd>>,
           <<\h01cc, \h01cf>>, <<\h01d4, \h01db>>, <<\h01e4, \h01eb>>,
           <<\h01f4, \h01f9>>})
        \union {\h012f, \h0195, \h01a1}

From0200 ==
    Spans({<<\h0200, \h0205>>, <<\h020c, \h0213>>, <<\h0215, \h0219>>,
           <<\h021e, \h0221>>, <<\h0226, \h023d>>, <<\h0256, \h0261>>,
           <<\h026e, \h0288>>, <<\h029e, \h02a5>>, <<\h02ae, \h02af>>,
           <<\h02b2, \h02b5>>, <<\h02ba, \h02bd>>, <<\h02c0, \h02c5>>,
           <<\h02e2, \h02e7>>, <<\h02ee, \h02f4>>, <<\h02fc, \h02ff>>})

From0300 ==
    Spans({<<\h0300, \h030d>>, <<\h0314, \h031f>>, <<\h0324, \h032f>>,
           <<\h0334, \h033f>>, <<\h0344, \h034d>>, <<\h0350, \h0357>>,
           <<\h035c, \h0360>>, <<\h0364, \h0369>>, <<\h036c, \h037f>>})

From0380 ==
    Spans({<<\h0380, \h0382>>, <<\h038e, \h039a>>, <<\h03a6, \h03bd>>,
           <<\h03d6, \h03dd>>, <<\h03e6, \h03e7>>, <<\h03ea, \h03ed>>,
           <<\h03f2, \h03f5>>, <<\h03fa, \h03fd>>})
        \union {\h0384, \h0386, \h0388, \h038a, \h038c}

From0400 ==
    Spans({<<\h0400, \h040d>>, <<\h0410, \h0415>>, <<\h041c, \h0422>>,
           <<\h0424, \h043b>>, <<\h0440, \h0449>>, <<\h044e, \h0455>>,
           <<\h045c, \h0469>>, <<\h046e, \h047f>>})
        \union {\h044c}

From0480 ==
    Spans({<<\h0480, \h0485>>, <<\h048c, \h0499>>, <<\h049c, \h049f>>,
           <<\h04a6, \h04bd>>, <<\h04d6, \h04dd>>, <<\h04e6, \h04e7>>,
           <<\h04ea, \h04ed>>, <<\h04f2, \h04f5>>})

From0500 ==
    Spans({<<\h0500, \h0505>>, <<\h0507, \h050b>>, <<\h050e, \h050f>>,
           <<\h0533, \h0535>>, <<\h05e0, \h05e3>>, <<\h05eb, \h05ec>>,
           <<\h05ff, \h063d>>, <<\h0640, \h0644>>, <<\h0650, \h0655>>,
           <<\h0660, \h066a>>, <<\h0682, \h0685>>})
        \union {\h0540, \h0542, \h0544, \h0546, \h0548, \h054a, \h054c, \h054e,
                \h0550, \h0552, \h0554, \h058f, \h05e8, \h0680}

From0700 ==
    Spans({<<\h0700, \h0704>>, <<\h0707, \h070a>>, <<\h070f, \h0716>>,
           <<\h0720, \h0724>>, <<\h0730, \h0732>>, <<\h0742, \h0744>>,
           <<\h0746, \h0747>>, <<\h0749, \h074a>>, <<\h0750, \h0755>>,
           <<\h0759, \h075c>>, <<\h0760, \h0763>>, <<\h0780, \h0786>>,
           <<\h0788, \h078d>>, <<\h07a0, \h07d5>>, <<\h07e0, \h07e6>>})
        \union {\h0740, \h0770, \h0790}

From0800 ==
    Spans({<<\h0802, \h0804>>, <<\h0806, \h0808>>, <<\h080a, \h080b>>,
           <<\h080d, \h080f>>, <<\h0811, \h0812>>, <<\h0814, \h0816>>,
           <<\h081c, \h081e>>, <<\h0821, \h0825>>, <<\h082a, \h082d>>,
           <<\h0830, \h0834>>, <<\h0840, \h0845>>, <<\h084b, \h087f>>})
        \union {\h0800, \h0818, \h081a, \h0838}

From0880 ==
    Spans({<<\h0880, \h088f>>, <<\h08a0, \h08bb>>, <<\h08c0, \h08c3>>,
           <<\h08d0, \h08e7>>, <<\h08f0, \h08ff>>})
        \union {\h08c5, \h08c7, \h08cb, \h08e9, \h08ec}

From0900 ==
    Spans({<<\h0902, \h0904>>, <<\h0906, \h0914>>, <<\h0916, \h091e>>,
           <<\h0920, \h0926>>, <<\h092a, \h092b>>, <<\h092d, \h092e>>,
           <<\h0930, \h0931>>, <<\h0933, \h0934>>, <<\h0939, \h093e>>,
           <<\h0943, \h094d>>, <<\h0958, \h095b>>, <<\h0a00, \h0a01>>,
           <<\h0a70, \h0a71>>, <<\h0a81, \h0a88>>, <<\h0a8f, \h0a91>>,
           <<\h0a96, \h0a98>>, <<\h0a9a, \h0a9f>>, <<\h0b00, \h0b01>>,
           <<\h0b0a, \h0b0c>>, <<\h0b27, \h0b2a>>, <<\h0b34, \h0b36>>,
           <<\h0b81, \h0b82>>, <<\h0ba8, \h0ba9>>, <<\h0bac, \h0bad>>,
           <<\h0bb0, \h0bb1>>, <<\h0bb4, \h0bb5>>, <<\h0bb8, \h0bb9>>,
           <<\h0bbc, \h0bbd>>})
        \union {\h0900, \h0928, \h0980, \h0982, \h098d, \h0a03, \h0a61, \h0a64,
                \h0a66, \h0a6d, \h0a74, \h0ad0, \h0ada, \h0b31, \h0b40, \h0b70,
                \h0b72, \h0b78, \h0b93}

From0c00 ==
    Spans({<<\h0c00, \h0c03>>, <<\h0c10, \h0c30>>, <<\h0c32, \h0c34>>,
           <<\h0c36, \h0c97>>, <<\h0cd8, \h0cd9>>})
        \union {\h0c06, \h0ce2, \h0ce4, \h0ce6, \h0d08, \h0df0}

From0e00 ==
    Spans({<<\h0e00, \h0e01>>, <<\h0e04, \h0e09>>, <<\h0e10, \h0e12>>,
           <<\h0e15, \h0e19>>, <<\h0e1c, \h0e37>>, <<\h0f01, \h0f02>>,
           <<\h1540, \h1545>>, <<\h1572, \h1577>>, <<\h15a4, \h15a9>>,
           <<\h15d6, \h15db>>, <<\h3000, \h3001>>, <<\h3080, \h3081>>,
           <<\h3084, \h3088>>, <<\h30d0, \h30d3>>, <<\h30d8, \h30db>>,
           <<\h30e0, \h30e3>>, <<\h3100, \h3102>>, <<\h3110, \h3112>>,
           <<\h3118, \h311a>>})
        \union {\h0e0b, \h0e0d, \h0e3a, \h0e3c, \h0f04, \h0f06, \h0f08, \h0f0a,
                \h0f0c, \h1140, \h1148, \h302a, \h308c}

From3c00 ==
    Spans({<<\h3c00, \h3c06>>, <<\h3c45, \h3c46>>, <<\h3c49, \h3c4a>>,
           <<\h3cc0, \h3cd5>>, <<\h3ce0, \h3ce5>>})

From8000 ==
    Spans({<<\h8000, \h800c>>, <<\h8010, \h801f>>, <<\h8070, \h8080>>,
           <<\h8086, \h8092>>, <<\h8094, \h809d>>, <<\h80a0, \h80a7>>,
           <<\h80af, \h80df>>, <<\h80f0, \h80f1>>, <<\h80f4, \h80f6>>})
        \union {\h80f8, \h80fa}

From8100 ==
    Spans({<<\h8100, \h8106>>, <<\h8108, \h8111>>, <<\h8113, \h8116>>,
           <<\h8120, \h8121>>, <<\h8130, \h8131>>, <<\h8200, \h8213>>,
           <<\h8220, \h8225>>, <<\h8228, \h822d>>, <<\h8230, \h823b>>,
           <<\h8240, \h824f>>, <<\h8270, \h827f>>, <<\h829f, \h82a5>>,
           <<\h82d0, \h82df>>, <<\h8400, \h840b>>, <<\h8500, \h8508>>})

From8600 ==
    Spans({<<\h8600, \h8602>>, <<\h8610, \h861b>>, <<\h8710, \h8715>>,
           <<\h8720, \h8723>>, <<\h8730, \h8735>>})
        \union {\h8700, \h8702}

From8800 ==
    Spans({<<\h8800, \h8816>>, <<\h8818, \h8827>>, <<\h8860, \h8866>>,
           <<\h8870, \h8875>>, <<\h8877, \h8879>>, <<\h8880, \h8884>>,
           <<\h8886, \h8889>>, <<\h8890, \h8891>>, <<\h8898, \h8899>>,
           <<\h88af, \h88d8>>, <<\h88da, \h88dc>>, <<\h88de, \h88e6>>,
           <<\h88f0, \h88f1>>, <<\h88f3, \h88f5>>})

From8900 ==
    Spans({<<\h8902, \h890a>>, <<\h8930, \h8937>>, <<\h8950, \h8955>>,
           <<\h8960, \h8965>>, <<\h8c00, \h8c01>>, <<\h8c17, \h8c18>>,
           <<\h8c1a, \h8c1b>>, <<\h8c1d, \h8c1e>>, <<\h8c22, \h8c23>>,
           <<\h8c2c, \h8c2f>>, <<\h8e04, \h8e0a>>, <<\h8e10, \h8e1c>>,
           <<\h8e2c, \h8e35>>, <<\h8e50, \h8e51>>, <<\h8e77, \h8e79>>,
           <<\h8f00, \h8f07>>, <<\h8f10, \h8f15>>, <<\h90c0, \h90c1>>,
           <<\h9100, \h910c>>, <<\h9180, \h9182>>, <<\h9184, \h9187>>})
        \union {\h8900, \h8927, \h8a00, \h8a10, \h8a20, \h8a30, \h8c20, \h8c25,
                \h8c34, \h8e01, \h8e28, \h8e3b, \h8e3d, \h8f29}

From9200 ==
    Spans({<<\h9200, \h9218>>, <<\h921a, \h921d>>, <<\h9240, \h924f>>,
           <<\h9252, \h9255>>, <<\h9300, \h931a>>, <<\h9600, \h9616>>,
           <<\h9670, \h967b>>, <<\h9690, \h969b>>, <<\h9740, \h9742>>,
           <<\h9750, \h975b>>})
        \union {\h9236, \h9634, \h9680, \h9745}

From9800 ==
    Spans({<<\h9800, \h980b>>, <<\h9812, \h9816>>, <<\h9840, \h9842>>,
           <<\h9884, \h9886>>, <<\h9980, \h9981>>, <<\h9b00, \h9b0d>>,
           <<\h9b10, \h9b13>>, <<\h9b15, \h9b18>>, <<\h9e00, \h9e02>>,
           <<\h9e06, \h9e0e>>, <<\h9e10, \h9e12>>, <<\h9e22, \h9e24>>,
           <<\h9e30, \h9e3f>>, <<\h9e42, \h9e51>>, <<\h9e63, \h9e64>>,
           <<\h9f00, \h9f0f>>})
        \union {\h9810, \h9880, \h9c00, \h9e04, \h9e14, \h9e17, \h9e1c, \h9e53,
                \h9e72, \h9f20, \h9f23}

Froma000 ==
    Spans({<<\ha000, \ha009>>, <<\ha00e, \ha02f>>, <<\ha090, \ha0af>>,
           <<\ha0d0, \ha0ef>>, <<\ha600, \ha601>>, <<\ha610, \ha61f>>,
           <<\ha639, \ha63c>>})
        \union {\ha0f8}

Froma800 ==
    Spans({<<\ha800, \ha81c>>, <<\ha81e, \ha81f>>, <<\ha821, \ha827>>,
           <<\ha82f, \ha834>>, <<\ha836, \ha837>>, <<\ha839, \ha85c>>,
           <<\ha85e, \ha85f>>, <<\ha861, \ha868>>, <<\ha870, \ha88d>>,
           <<\ha88f, \ha890>>, <<\ha892, \ha899>>})
        \union {\ha82d, \ha8a0, \ha8a2, \ha8a4, \ha8a6, \ha8a8, \ha8aa, \ha8ac, \ha8ae}

Froma980 ==
    Spans({<<\ha980, \ha983>>, <<\ha985, \ha986>>, <<\ha988, \ha9ae>>,
           <<\ha9b0, \ha9b4>>, <<\ha9b6, \ha9b7>>, <<\ha9b9, \ha9c0>>,
           <<\ha9c2, \ha9c3>>, <<\ha9c5, \ha9cb>>, <<\ha9d4, \ha9e0>>,
           <<\ha9e8, \ha9ef>>, <<\haa00, \haa0c>>})
        \union {\ha9cd, \ha9e2, \ha9e4, \ha9e6, \ha9f2, \ha9f8, \haaf2}

Fromab00 ==
    Spans({<<\hab00, \hab14>>, <<\hab1c, \hab23>>, <<\hab30, \hab7f>>})
        \union {\hab1a}

Fromab80 ==
    Spans({<<\hab80, \habaf>>})

Fromacc0 ==
    Spans({<<\hae00, \hae0c>>, <<\hae0f, \hae27>>, <<\hae30, \hae32>>,
           <<\hae3a, \hae3c>>, <<\hae60, \hae65>>, <<\hae6a, \hae6d>>,
           <<\hae73, \hae74>>, <<\hae80, \haea3>>, <<\haec0, \haec5>>,
           <<\hb182, \hb183>>, <<\hb190, \hb191>>, <<\hb2c0, \hb2c2>>,
           <<\hb2c4, \hb2c5>>, <<\hb2c7, \hb2c8>>, <<\hb2cc, \hb2d2>>,
           <<\hb2d6, \hb2d7>>, <<\hb300, \hb302>>, <<\hb304, \hb307>>,
           <<\hb4c0, \hb4c2>>, <<\hb4c4, \hb4c5>>, <<\hb4c7, \hb4c8>>,
           <<\hb4cc, \hb4d1>>})
        \union {\hacc0, \hae35, \hae3e, \hae52, \hae71, \hae76, \hb180, \hb2ca,
                \hb309, \hb310, \hb4ca}

Fromb600 ==
    Spans({<<\hb600, \hb602>>, <<\hb604, \hb633>>, <<\hb800, \hb803>>,
           <<\hb820, \hb821>>, <<\hb980, \hb987>>, <<\hb990, \hb99b>>,
           <<\hb9a0, \hb9a1>>, <<\hb9c0, \hb9c4>>, <<\hbb00, \hbb02>>,
           <<\hbb10, \hbb11>>, <<\hbb20, \hbb24>>, <<\hbe00, \hbe01>>,
           <<\hbe04, \hbe05>>, <<\hbe10, \hbe15>>, <<\hd600, \hd601>>,
           <<\hd700, \hd701>>, <<\hf802, \hf803>>})
        \union {\hb823, \hb9a3, \hb9d0, \hbb08, \hbd80, \hbe08, \hbe22, \hc000,
                \hc800, \hd000, \hf400, \hf800, \hf810, \hfc00}

\* The keys of RegNameByOffset.
RegNameByOffset ==
    UNION {From0000, From0100, From0200, From0300, From0380, From0400, From0480,
           From0500, From0700, From0800, From0880, From0900, From0c00, From0e00,
           From3c00, From8000, From8100, From8600, From8800, From8900, From9200,
           From9800, Froma000, Froma800, Froma980, Fromab00, Fromab80, Fromacc0, Fromb600}
=============================================================================
