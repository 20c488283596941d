---------------------------- MODULE MCSimEmulator ----------------------------
(* A 2 x 2 panel, two characters of 2 x 2 points, bytes of four bits.         *)
EXTENDS SimEmulator

Call(store, what, at, value) ==
  [kind |-> "store", store |-> store, shows |-> [what |-> what, at |-> at, value |-> value]]
SetPixel(px, py, buffer, v) ==
  Call(hub75_set_pixel(px, py, buffer, hub75_color(v[1], v[2], v[3]))[1], "pixel", <<px, py, buffer>>, v)
Select(n) == Call(hub75_select_buffer(n)[1], "select", 0, n)
SetLeds(v) == Call(Store(LEDS_ADDR, <<v>>), "leds", 0, v)
SetChar(i, ch) == Call(Store(SCREENBUFFER_BASE_ADDR + i, <<ch>>), "char", i, ch)
SetColor(i, fg, bg) ==
  Call(Store(COLORBUFFER_BASE_ADDR + 4 * i, BytesOf(COLOR_FG(fg) + COLOR_BG(bg))), "color", i, <<fg, bg>>)
\* What printchar does when colours are supported, and a program's own colour.
PrintChar(i, ch) == Call(Store(SCREENBUFFER + i, <<ch>>), "printed", i, ch)
Tint(i, fg, bg) == Call(Store(COLORBUFFER + 4 * i, BytesOf(COLOR_FG(fg) + COLOR_BG(bg))), "tinted", i, <<fg, bg>>)
ClearVsync == Call(hub75_clear_vsync_flag[1], "clear", 0, 0)
Elsewhere(a, v) == Call(Store(a, <<v>>), "other", 0, 0)
Do(kind) == [kind |-> kind]

MCPrograms == {
  << SetLeds(9), Do("ebreak"), SetLeds(5), Do("other") >>,
  << SetPixel(0, 1, 1, <<1, 2, 3>>), Select(1), Do("ecall"), SetPixel(1, 1, 0, <<7, 0, 4>>),
     Do("ebreak"), Select(0), Do("other") >>,
  << SetChar(1, 2), SetColor(1, 5, 6), Do("ebreak"), SetChar(0, 1), Do("other") >>,
  << Tint(1, 5, 6), SetChar(1, 1), PrintChar(1, 2), Do("other") >>,
  << Elsewhere(1, 7), ClearVsync, Do("vsync"), SetLeds(3), Do("other") >>,
  << Select(1), Do("vsync"), Do("other") >> }   \* the flag is memory that nobody else sets

Opt(l, v, h, b) == [leds |-> l, vga |-> v, hub75 |-> h, bootloader |-> b]
MCOptions == { Opt(TRUE, FALSE, FALSE, FALSE), Opt(FALSE, TRUE, FALSE, TRUE), Opt(FALSE, FALSE, TRUE, FALSE),
               Opt(TRUE, FALSE, TRUE, TRUE), Opt(FALSE, FALSE, FALSE, FALSE) }

MCImage == [exists |-> TRUE, suffix |-> "bin", bytes |-> <<1, 2, 3>>]
MCFont == [exists |-> TRUE, suffix |-> "bin", bytes |-> <<0, 0, 8, 4, 12, 8>>]
==============================================================================
