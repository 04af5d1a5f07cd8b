---------------------------- MODULE MCDesktopApp ----------------------------
(* Three things to copy: rich text next to a picture that cannot be read,  *)
(* a secret, and a list of one image file; and what may happen in each of  *)
(* the sessions.                                                           *)
EXTENDS DesktopApp, TLC

Clip(image, files, text, html, private) ==
    [image |-> image, files |-> files, text |-> text, html |-> html, rtf |-> "none",
     private |-> private]

MCClips == { Clip("bad", "none", "none", "h1", FALSE),
             Clip("p1", "none", "t1", "none", TRUE),
             Clip("bad", "l1", "t1", "none", FALSE) }

MCPicture == ("l1" :> "p1")

MCPlain == ("h1" :> "t1")

MCActions == <<"toggle", "plaintext">>

MCDefaultKeys == [a \in {"toggle", "plaintext"} |-> IF a = "toggle" THEN "k1" ELSE "k2"]

Start(s, history, clipboard, popup, pasted, shortcuts, end) ==
    [session |-> s, history |-> history, clipboard |-> clipboard, popup |-> popup,
     paste |-> pasted, shortcuts |-> shortcuts, end |-> end]

Copied == { PayloadOf([NoFlavors EXCEPT !["text"] = "t1"]) }

MCStarts == { Start("x11", {}, 2, 0, 1, 0, 0),
              Start("x11", Copied, 0, 1, 1, 0, 0),
              Start("x11", Copied, 0, 3, 0, 0, 0),
              Start("x11", Copied, 0, 0, 3, 0, 0),
              Start("x11", {}, 1, 0, 1, 0, 1),
              Start("wayland", Copied, 0, 1, 0, 0, 1),
              Start("x11 gnome", {}, 0, 0, 0, 2, 0),
              Start("x11 gnome", {}, 0, 0, 0, 1, 1),
              Start("wayland gnome", {}, 0, 0, 0, 3, 0),
              Start("wayland gnome", {}, 0, 0, 0, 1, 1),
              Start("kde", {}, 0, 0, 0, 2, 1),
              Start("kde", {}, 0, 0, 0, 3, 0) }
=============================================================================
