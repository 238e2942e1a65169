-------------------------------- MODULE MCSys --------------------------------
(***************************************************************************)
(* The serial application, and other applications that make any few calls  *)
(* of the library, on a scaled-down memory map: the kernel's object sizes  *)
(* are the real ones, the application's RAM 4 KiB.                         *)
(***************************************************************************)
EXTENDS SysScopes

MCMemoryMap == <<[base |-> 8192, level |-> 11], [base |-> 16384, level |-> 9],
                 [base |-> 20480, level |-> 11], [base |-> 32768, level |-> 12]>>

\* Headers in bytes; a GOT entry of each kind.
Hdr(image, text, got, bss, stack) ==
  [image_size |-> image, text_end |-> text, got_end |-> got, bss_end |-> bss,
   stack_size |-> stack, entry |-> 24]
Img(base, level, off, hdr, got) ==
  [base |-> base, level |-> level, addr |-> base + off, hdr |-> hdr, got |-> got]

MCDriver == Img(8192, 8, 0, Hdr(160, 128, 136, 300, 84), <<32, 296>>)
MCClient == Img(9216, 6, 0, Hdr(64, 60, 64, 64, 60), <<40>>)
\* Images that are refused or fail: misaligned, ending where its Memory does,
\* with an invalid header, with more RAM than there is, with a header that
\* runs out of its Memory, and with sizes whose sum wraps.
MCAnyImage ==
  {MCClient,
   [MCClient EXCEPT !.hdr.bss_end = 1000, !.hdr.stack_size = 1080],
   [MCClient EXCEPT !.addr = @ + 2],
   [MCClient EXCEPT !.hdr.image_size = 128],
   [MCClient EXCEPT !.hdr.entry = 60],
   [MCClient EXCEPT !.hdr.bss_end = 65532, !.hdr.stack_size = 65532],
   [MCClient EXCEPT !.addr = @ + 124, !.hdr.image_size = 0],
   [MCClient EXCEPT !.hdr.text_end = 28, !.hdr.got_end = 28, !.hdr.image_size = 100,
                    !.hdr.bss_end = 65532, !.hdr.stack_size = 96]}
MCAnyLevel == {3, 4, 9}

Serial(n) == [extra |-> n, setup |-> app_setup]
Other(n, calls) == [extra |-> n, setup |-> <<Call("any", calls, NoVar)>>]
MCApplication == {Serial(20), Serial(12), Other(20, 3), Other(5, 3), Other(0, 2)}
MCSmall == {Serial(6)}
MCRequest == {[index |-> 2, from |-> 11], [index |-> 3, from |-> 14],
              [index |-> 6, from |-> 11]}
=============================================================================
