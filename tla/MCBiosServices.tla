--------------------------- MODULE MCBiosServices ---------------------------
(***************************************************************************)
(* The services of the system BIOS and its drivers.  The modules share no  *)
(* variable: a behaviour runs one of them, the others stay in one of their *)
(* initial states.                                                         *)
(***************************************************************************)
EXTENDS TLC, BiosClock, BiosKeyboard, BiosPs2, BiosDisk, BiosAta, BiosUhci, BiosUsbKeys, BiosOhci, BiosVga

CONSTANT Parts
VARIABLE part

AnyOf(S) == CHOOSE x \in S : TRUE

ohciVars == <<listVars, ringVarsO>>

----------------------------------------------------------------------------
\* Machines with drives of all kinds, or with one hard disk of any geometry.
MCGeo(c, h, s, n, t) == [c |-> c, h |-> h, s |-> s, sectors |-> n, trans |-> t]
MCDrive(k, t, i, g) == [kind |-> k, type |-> t, id |-> i, geo |-> g]
MCNoGeo == MCGeo(0, 0, 0, 0, "none")
MCSmallGeo == MCGeo(2, 2, 3, 12, "none")
MCAllKinds == {MCDrive("floppy", 1, 0, MCSmallGeo), MCDrive("floppy", 1, 1, MCSmallGeo),
               MCDrive("hd", 2, 0, MCSmallGeo), MCDrive("cd", 3, 1, MCNoGeo), MCDrive("cd", 3, 3, MCNoGeo)}
MCDriveSets == {MCAllKinds}
    \cup {{MCDrive("hd", 2, 0, MCGeo(c, 16, 63, c * 16 * 63, t))} :
             c \in {1025, 65535}, t \in {"large", "rechs", "lba", "guess"}}
MCImages == {[media |-> 0, lba |-> 4, chs |-> <<0, 0, 0>>], [media |-> 2, lba |-> 4, chs |-> <<2, 2, 3>>],
             [media |-> 4, lba |-> 8, chs |-> <<3, 2, 3>>]}
MCChs == {<<0, 1, 3>>, <<1, 0, 2>>, <<2, 0, 1>>, <<0, 0, 0>>}

\* Two channels, one of them with any pair of devices; requests at the limits
\* of the registers, of a page and of the descriptors.
MCChannel(a, b, l) == [kinds |-> <<a, b>>, alone |-> l]
MCDevices == {"none", "ata", "atapi", "mute"}
MCBuses == {(0 :> MCChannel(a, b, l)) @@ (1 :> c) :
               a \in MCDevices, b \in MCDevices, l \in {FALSE}, c \in {MCChannel("ata", "none", TRUE)}}
           \cup {(0 :> MCChannel(a, "none", TRUE)) @@ (1 :> MCChannel("atapi", "ata", FALSE)) : a \in MCDevices}
MCRequest(l, n, b, w) == [lba |-> l, count |-> n, buf |-> b, write |-> w]
MCRequests == {MCRequest(126, 2, 6, TRUE), MCRequest(127, 2, 1, FALSE), MCRequest(127, 1, 0, TRUE),
               MCRequest(5, 4, 4, FALSE), MCRequest(130, 3, 6, FALSE), MCRequest(1, 9, 2, FALSE)}

\* Two text modes; positions, windows and strings that reach all edges.
MCMode(c, r, v) == [cols |-> c, rows |-> r, vde |-> v]
MCModes == {MCMode(3, 2, 6), MCMode(2, 3, 6)}
MCAt(x, y) == [x |-> x, y |-> y]
MCPositions == {MCAt(2, 1), MCAt(1, 2)}
MCWindows == {<<MCAt(0, 0), MCAt(9, 9)>>, <<MCAt(0, 1), MCAt(1, 9)>>}
MCStrings == {<<"b", "tab", "c">>, <<"cr", "bell", "lf">>, <<"g", "h", "back", "j">>}

----------------------------------------------------------------------------
ServicesInit ==
    /\ part \in Parts
    /\ part = "clock" \/ (counter = AnyOf(ClockSets) /\ regB = {"24HR"})
    /\ part = "ps2" \/ ctr = {}
    /\ part = "disk" \/ left = AnyOf(DriveSets)
    /\ part = "ata" \/ bus = AnyOf(Buses)
    /\ part = "vga" \/ bda = ModeBda(AnyOf(Modes))
    /\ ClkInit /\ KbdInit /\ Ps2Init /\ DskInit /\ AtaInit /\ UhciInit /\ KeysInit /\ OhciInit /\ VgaInit

ServicesNext ==
    /\ UNCHANGED part
    /\ \/ /\ part = "clock" /\ ClkNext
          /\ UNCHANGED <<kbdVars, ps2Vars, dskVars, ataVars, uhciVars, keysVars, ohciVars, vgaVars>>
       \/ /\ part = "keyboard" /\ KbdNext
          /\ UNCHANGED <<clkVars, ps2Vars, dskVars, ataVars, uhciVars, keysVars, ohciVars, vgaVars>>
       \/ /\ part = "ps2" /\ Ps2Next
          /\ UNCHANGED <<clkVars, kbdVars, dskVars, ataVars, uhciVars, keysVars, ohciVars, vgaVars>>
       \/ /\ part = "disk" /\ DskNext
          /\ UNCHANGED <<clkVars, kbdVars, ps2Vars, ataVars, uhciVars, keysVars, ohciVars, vgaVars>>
       \/ /\ part = "ata" /\ AtaNext
          /\ UNCHANGED <<clkVars, kbdVars, ps2Vars, dskVars, uhciVars, keysVars, ohciVars, vgaVars>>
       \/ /\ part \in {"uhci schedule", "uhci bulk", "uhci intr"}
          /\ \/ part = "uhci schedule" /\ SchedNext /\ UNCHANGED <<bulkVars, intrVars>>
             \/ part = "uhci bulk" /\ BulkNext /\ UNCHANGED <<schedVars, intrVars>>
             \/ part = "uhci intr" /\ IntrPipeNext /\ UNCHANGED <<schedVars, bulkVars>>
          /\ UNCHANGED <<clkVars, kbdVars, ps2Vars, dskVars, ataVars, keysVars, ohciVars, vgaVars>>
       \/ /\ part = "usb keys" /\ KeysNext
          /\ UNCHANGED <<clkVars, kbdVars, ps2Vars, dskVars, ataVars, uhciVars, ohciVars, vgaVars>>
       \/ /\ part \in {"ohci list", "ohci ring"}
          /\ \/ part = "ohci list" /\ ListNext /\ UNCHANGED ringVarsO
             \/ part = "ohci ring" /\ RingNextO /\ UNCHANGED listVars
          /\ UNCHANGED <<clkVars, kbdVars, ps2Vars, dskVars, ataVars, uhciVars, keysVars, vgaVars>>
       \/ /\ part = "vga" /\ VgaNext
          /\ UNCHANGED <<clkVars, kbdVars, ps2Vars, dskVars, ataVars, uhciVars, keysVars, ohciVars>>

servicesVars == <<part, clkVars, kbdVars, ps2Vars, dskVars, ataVars, uhciVars, keysVars, ohciVars, vgaVars>>
ServicesSpec == ServicesInit /\ [][ServicesNext]_servicesVars
=============================================================================
