----------------------- MODULE TrackingPipelineProofs -----------------------
(***************************************************************************)
(* What the control thread computes, for every frame, threshold, gain and  *)
(* limit, and for every leg, calibration and pose: the estimate is of the  *)
(* picture, the setpoint follows the centroid, a command tells the truth.  *)
(* One part for each stage, then the invariant that joins them.            *)
(***************************************************************************)
EXTENDS TrackingPipeline, NumberLemmas, SequenceTheorems, TLAPS

-----------------------------------------------------------------------------
(* SunTracker: from the bytes of a frame to the brightness of its pixels.   *)

(* Where the bytes of a pixel are.                                         *)
LEMMA FrameTypes ==
  ASSUME NEW f \in Frames
  PROVE  /\ f.format \in {"Gray8", "RGB888", "BGR888"}
         /\ f.width \in Int /\ f.height \in Int /\ f.stride \in Int
         /\ f.data \in Seq(Bytes) /\ Len(f.data) \in Nat
         /\ BytesPerPixel(f.format) \in {1, 3}
         /\ BytesPerPixel(f.format) = 1 <=> f.format = "Gray8"
BY FramesAssumption DEF BytesPerPixel

(* The bytes of a pixel lie in its row and in its column, and in the       *)
(* frame.                                                                  *)
LEMMA PixelBytes ==
  ASSUME NEW f \in Frames, IsFrameValid(f),
         NEW x \in Columns(f), NEW y \in Rows(f)
  PROVE  LET n == BytesPerPixel(f.format)
             at == y * f.stride + x * n
         IN \A k \in 0 .. n - 1 :
              /\ at \in Nat
              /\ at + k + 1 \in 1 .. Len(f.data)
              /\ f.data[at + k + 1] \in Bytes
              /\ (at + k) \div f.stride = y
              /\ (at + k) % f.stride = x * n + k
<1> DEFINE n == BytesPerPixel(f.format)
           w == f.width
           h == f.height
           s == f.stride
           at == y * s + x * n
<1>1. /\ w \in Int /\ h \in Int /\ s \in Int /\ n \in {1, 3}
      /\ f.data \in Seq(Bytes) /\ Len(f.data) \in Nat
  BY FrameTypes
<1>2. /\ w > 0 /\ h > 0 /\ s > 0 /\ s >= w * n
      /\ Len(f.data) >= s * h
  BY <1>1 DEF IsFrameValid
<1>3. x \in 0 .. w - 1 /\ y \in 0 .. h - 1
  BY DEF Columns, Rows
<1> HIDE DEF n, w, h, s
<1>4. ASSUME NEW k \in 0 .. n - 1
      PROVE  /\ at \in Nat
             /\ at + k + 1 \in 1 .. Len(f.data)
             /\ f.data[at + k + 1] \in Bytes
             /\ (at + k) \div s = y
             /\ (at + k) % s = x * n + k
  <2>1. x * n \in Nat /\ x * n + k \in Nat /\ x * n + k < s
    <3>1. CASE n = 1
      BY <1>1, <1>2, <1>3, <3>1
    <3>2. CASE n = 3
      BY <1>1, <1>2, <1>3, <3>2
    <3> QED
      BY <1>1, <3>1, <3>2
  <2>2. y * s \in Nat
    BY <1>1, <1>2, <1>3, IntProducts
  <2>3. y * s + s <= s * h
    <3>1. s * (y + 1) <= s * h
      BY <1>1, <1>2, <1>3, Scaled
    <3>2. s * (y + 1) = y * s + s /\ s * h \in Int
      BY <1>1, <1>3
    <3> QED
      BY <3>1, <3>2
  <2>4. at \in Nat /\ at + k + 1 \in 1 .. Len(f.data)
    <3> DEFINE row == y * s
               col == x * n
               size == s * h
               len == Len(f.data)
    <3>1. /\ row \in Nat /\ col \in Nat /\ size \in Int /\ len \in Nat
          /\ s \in Int /\ k \in Int /\ k >= 0
      BY <1>1, <2>1, <2>2
    <3>2. col + k < s /\ row + s <= size /\ size <= len
      BY <1>2, <2>1, <2>3
    <3>3. at = row + col
      OBVIOUS
    <3> HIDE DEF row, col, size, len, at
    <3>4. at \in Nat /\ at + k + 1 >= 1 /\ at + k + 1 <= len
      BY <3>1, <3>2, <3>3
    <3>5. at + k + 1 \in 1 .. len
      BY <3>1, <3>4
    <3> QED
      BY <3>4, <3>5 DEF len
  <2>5. f.data[at + k + 1] \in Bytes
    <3> HIDE DEF at
    <3> QED
      BY <1>1, <2>4, ElementOfSeq
  <2>6. at + k = s * y + (x * n + k)
    BY <1>1, <1>3, <2>1
  <2>7. s \in Nat /\ s > 0 /\ y \in Int
    BY <1>1, <1>2, <1>3
  <2>8. (s * y + (x * n + k)) \div s = y /\ (s * y + (x * n + k)) % s = x * n + k
    BY <2>1, <2>7, Division
  <2> QED
    BY <2>4, <2>5, <2>6, <2>8
<1> QED
  BY <1>4 DEF n, s

(* The brightness of each pixel is a byte.                                 *)
Intensities(f) ==
  [p \in Columns(f) \X Rows(f) |-> IntensityAt(f, p[1], p[2])]

(* The weights of the three colors add up to 256: no overflow, and white   *)
(* stays white.                                                            *)
LEMMA LuminanceIsByte ==
  ASSUME NEW r \in Bytes, NEW g \in Bytes, NEW b \in Bytes
  PROVE  /\ Luminance(r, g, b) \in Bytes
         /\ r = 255 /\ g = 255 /\ b = 255 => Luminance(r, g, b) = 255
         /\ r = 0 /\ g = 0 /\ b = 0 => Luminance(r, g, b) = 0
BY DEF Luminance, Bytes

(* What IntensityAt makes of the bytes of a pixel.                         *)
LEMMA IntensityOfBytes ==
  ASSUME NEW f \in Frames, IsFrameValid(f),
         NEW x \in Columns(f), NEW y \in Rows(f)
  PROVE  LET n == BytesPerPixel(f.format)
             byte(k) == f.data[y * f.stride + x * n + k + 1]
         IN /\ f.format = "Gray8" => /\ n = 1
                                     /\ byte(0) \in Bytes
                                     /\ IntensityAt(f, x, y) = byte(0)
            /\ f.format # "Gray8" =>
                 /\ n = 3
                 /\ {byte(0), byte(1), byte(2)} \subseteq Bytes
                 /\ IntensityAt(f, x, y) =
                      IF f.format = "RGB888"
                      THEN Luminance(byte(0), byte(1), byte(2))
                      ELSE Luminance(byte(2), byte(1), byte(0))
<1> DEFINE n == BytesPerPixel(f.format)
           byte(k) == f.data[y * f.stride + x * n + k + 1]
<1>1. f.format \in {"Gray8", "RGB888", "BGR888"}
  BY FrameTypes
<1>2. \A k \in 0 .. n - 1 : byte(k) \in Bytes
  BY PixelBytes
<1>3. CASE f.format = "Gray8"
  <2>1. n = 1
    BY <1>3 DEF BytesPerPixel
  <2>2. IntensityAt(f, x, y) = byte(0)
    BY <1>3 DEF IntensityAt
  <2>3. byte(0) \in Bytes
    BY <1>2, <2>1
  <2> QED
    BY <1>3, <2>1, <2>2, <2>3
<1>4. CASE f.format # "Gray8"
  <2>1. n = 3
    BY <1>1, <1>4 DEF BytesPerPixel
  <2>2. byte(0) \in Bytes /\ byte(1) \in Bytes /\ byte(2) \in Bytes
    BY <1>2, <2>1
  <2>3. IntensityAt(f, x, y) = IF f.format = "RGB888"
                               THEN Luminance(byte(0), byte(1), byte(2))
                               ELSE Luminance(byte(2), byte(1), byte(0))
    BY <1>1, <1>4 DEF IntensityAt
  <2> QED
    BY <1>4, <2>1, <2>2, <2>3
<1> QED
  BY <1>3, <1>4

(* In a valid frame every pixel has a brightness.                          *)
LEMMA IntensitiesAreBytes ==
  ASSUME NEW f \in Frames, IsFrameValid(f)
  PROVE  Intensities(f) \in [Columns(f) \X Rows(f) -> Bytes]
<1>1. ASSUME NEW x \in Columns(f), NEW y \in Rows(f)
      PROVE  IntensityAt(f, x, y) \in Bytes
  <2>1. f.format \in {"Gray8", "RGB888", "BGR888"}
    BY FrameTypes
  <2> DEFINE n == BytesPerPixel(f.format)
             byte(k) == f.data[y * f.stride + x * n + k + 1]
  <2>2. /\ f.format = "Gray8" => byte(0) \in Bytes
                                 /\ IntensityAt(f, x, y) = byte(0)
        /\ f.format # "Gray8" =>
             /\ {byte(0), byte(1), byte(2)} \subseteq Bytes
             /\ IntensityAt(f, x, y) = IF f.format = "RGB888"
                                       THEN Luminance(byte(0), byte(1), byte(2))
                                       ELSE Luminance(byte(2), byte(1), byte(0))
    BY IntensityOfBytes
  <2> HIDE DEF byte
  <2> QED
    BY <2>2, LuminanceIsByte
<1>2. \A p \in Columns(f) \X Rows(f) : IntensityAt(f, p[1], p[2]) \in Bytes
  BY <1>1
<1> QED
  BY <1>2 DEF Intensities

(* The bytes of a pixel, as the property cuts them out.                    *)
LEMMA PixelIs ==
  ASSUME NEW f \in Frames, IsFrameValid(f),
         NEW x \in Columns(f), NEW y \in Rows(f)
  PROVE  LET n == BytesPerPixel(f.format)
         IN /\ DOMAIN Pixel(f, x, y) = 1 .. n
            /\ \A k \in 0 .. n - 1 :
                 Pixel(f, x, y)[k + 1] = f.data[y * f.stride + x * n + k + 1]
<1> DEFINE n == BytesPerPixel(f.format)
           w == f.width
           h == f.height
           s == f.stride
           d == f.data
           row == SubSeq(d, s * y + 1, s * (y + 1))
           pixel == SubSeq(row, n * x + 1, n * (x + 1))
<1>1. /\ w \in Int /\ h \in Int /\ s \in Int /\ n \in {1, 3}
      /\ d \in Seq(Bytes) /\ Len(d) \in Nat
  BY FrameTypes
<1>2. /\ w > 0 /\ h > 0 /\ s > 0 /\ s >= w * n
      /\ Len(d) >= s * h
  BY <1>1 DEF IsFrameValid
<1>3. x \in 0 .. w - 1 /\ y \in 0 .. h - 1
  BY DEF Columns, Rows
<1>4. Pixel(f, x, y) = pixel
  BY DEF Pixel, Row
<1> HIDE DEF n, w, h, s, d
<1>5. /\ s * y \in Nat /\ s * (y + 1) = s * y + s
      /\ s * (y + 1) <= Len(d)
  <2>1. s * y \in Nat /\ s * (y + 1) = s * y + s /\ s * h \in Int
    BY <1>1, <1>2, <1>3, IntProducts
  <2>2. s * (y + 1) <= s * h
    BY <1>1, <1>2, <1>3, Scaled
  <2> QED
    BY <1>1, <1>2, <2>1, <2>2
<1> DEFINE from == s * y + 1
           to == s * (y + 1)
<1>6. /\ from \in Int /\ to \in Int /\ to - from + 1 = s /\ from >= 1
      /\ from <= to /\ to <= Len(d)
  <2> DEFINE above == s * y
  <2>1. /\ above \in Nat /\ to = above + s /\ from = above + 1
        /\ to <= Len(d) /\ s \in Int /\ s > 0
    BY <1>1, <1>2, <1>5
  <2> HIDE DEF above, from, to
  <2> QED
    BY <2>1
<1>7. \A i \in from .. to : d[i] \in Bytes
  <2>1. \A i \in 1 .. Len(d) : d[i] \in Bytes
    BY <1>1, ElementOfSeq
  <2> HIDE DEF from, to
  <2>2. from .. to \subseteq 1 .. Len(d)
    BY <1>1, <1>6
  <2> QED
    BY <2>1, <2>2
<1>8. /\ row \in Seq(Bytes)
      /\ Len(row) = s
      /\ \A i \in 1 .. s : row[i] = d[s * y + i]
  <2> DEFINE r == SubSeq(d, from, to)
  <2>1. /\ r \in Seq(Bytes)
        /\ Len(r) = IF from <= to THEN to - from + 1 ELSE 0
        /\ \A i \in 1 .. to - from + 1 : r[i] = d[from + i - 1]
    <3> HIDE DEF from, to
    <3> QED
      BY <1>6, <1>7, SubSeqProperties
  <2>2. \A i \in 1 .. s : r[i] = d[s * y + i]
    <3> SUFFICES ASSUME NEW i \in 1 .. s PROVE r[i] = d[s * y + i]
      OBVIOUS
    <3>1. from + i - 1 = s * y + i
      BY <1>1, <1>5
    <3> HIDE DEF r
    <3> QED
      BY <1>6, <2>1, <3>1
  <2> HIDE DEF from, to
  <2> QED
    BY <1>6, <2>1, <2>2 DEF from, to
<1> HIDE DEF row
<1> DEFINE lo == n * x + 1
           hi == n * (x + 1)
<1>9. /\ n * x = x * n /\ x * n \in Nat
      /\ lo \in Int /\ hi \in Int /\ hi - lo + 1 = n /\ lo >= 1 /\ hi <= s
  <2>1. CASE n = 1
    BY <1>1, <1>2, <1>3, <2>1
  <2>2. CASE n = 3
    BY <1>1, <1>2, <1>3, <2>2
  <2> QED
    BY <1>1, <2>1, <2>2
<1>10. \A i \in lo .. hi : row[i] \in Bytes
  <2>1. \A i \in 1 .. Len(row) : row[i] \in Bytes
    BY <1>8, ElementOfSeq
  <2> HIDE DEF lo, hi
  <2>2. lo .. hi \subseteq 1 .. Len(row)
    BY <1>1, <1>8, <1>9
  <2> QED
    BY <2>1, <2>2
<1>11. /\ pixel \in Seq(Bytes) /\ Len(pixel) = n
       /\ \A i \in 1 .. n : pixel[i] = row[lo + i - 1]
  <2> DEFINE r == SubSeq(row, lo, hi)
  <2>1. /\ r \in Seq(Bytes)
        /\ Len(r) = IF lo <= hi THEN hi - lo + 1 ELSE 0
        /\ \A i \in 1 .. hi - lo + 1 : r[i] = row[lo + i - 1]
    <3> HIDE DEF lo, hi
    <3> QED
      BY <1>9, <1>10, SubSeqProperties
  <2>2. lo <= hi
    <3> HIDE DEF lo, hi
    <3> QED
      BY <1>1, <1>9
  <2> HIDE DEF lo, hi
  <2> QED
    BY <1>9, <2>1, <2>2 DEF lo, hi
<1>12. DOMAIN pixel = 1 .. n
  <2> HIDE DEF pixel
  <2> QED
    BY <1>11, LenProperties
<1>13. ASSUME NEW k \in 0 .. n - 1
       PROVE  pixel[k + 1] = d[y * s + x * n + k + 1]
  <2>1. k + 1 \in 1 .. n
    BY <1>1
  <2>2. pixel[k + 1] = row[x * n + k + 1]
    <3>1. lo + (k + 1) - 1 = x * n + k + 1
      BY <1>1, <1>3, <1>9
    <3> HIDE DEF pixel, lo
    <3> QED
      BY <1>11, <2>1, <3>1
  <2>3. x * n + k + 1 \in 1 .. s
    <3>1. x * n + n <= s
      BY <1>9, <1>1, <1>3
    <3> DEFINE p == x * n
    <3>2. p \in Nat /\ p + n <= s /\ n \in Int /\ s \in Int
      BY <1>1, <1>9, <3>1
    <3> HIDE DEF p
    <3>3. p + k + 1 \in 1 .. s
      BY <3>2
    <3> QED
      BY <3>3 DEF p
  <2>4. row[x * n + k + 1] = d[s * y + (x * n + k + 1)]
    BY <1>8, <2>3
  <2>5. s * y + (x * n + k + 1) = y * s + x * n + k + 1
    BY <1>1, <1>3, <1>5, <1>9
  <2> QED
    BY <2>2, <2>4, <2>5
<1> HIDE DEF pixel
<1> QED
  BY <1>4, <1>12, <1>13 DEF n, s, d

(* A white pixel is as bright as can be in any format, a black one not at  *)
(* all.                                                                    *)
LEMMA WhiteAndBlack ==
  ASSUME NEW f \in Frames, IsFrameValid(f),
         NEW x \in Columns(f), NEW y \in Rows(f)
  PROVE  /\ White(f, x, y) => IntensityAt(f, x, y) = 255
         /\ Black(f, x, y) => IntensityAt(f, x, y) = 0
<1> DEFINE n == BytesPerPixel(f.format)
           byte(k) == f.data[y * f.stride + x * n + k + 1]
<1>1. /\ DOMAIN Pixel(f, x, y) = 1 .. n
      /\ \A k \in 0 .. n - 1 : Pixel(f, x, y)[k + 1] = byte(k)
  BY PixelIs
<1>2. n \in {1, 3}
  BY FrameTypes
<1>3. \A k \in 0 .. n - 1 : k + 1 \in DOMAIN Pixel(f, x, y)
  BY <1>1, <1>2
<1>4. ASSUME NEW v, \A i \in DOMAIN Pixel(f, x, y) : Pixel(f, x, y)[i] = v
      PROVE  \A k \in 0 .. n - 1 : byte(k) = v
  BY <1>1, <1>3, <1>4
<1>5. /\ f.format = "Gray8" => n = 1 /\ IntensityAt(f, x, y) = byte(0)
      /\ f.format # "Gray8" =>
           /\ n = 3
           /\ {byte(0), byte(1), byte(2)} \subseteq Bytes
           /\ IntensityAt(f, x, y) = IF f.format = "RGB888"
                                     THEN Luminance(byte(0), byte(1), byte(2))
                                     ELSE Luminance(byte(2), byte(1), byte(0))
  BY IntensityOfBytes
<1> HIDE DEF byte, n
<1>6. ASSUME NEW v \in {0, 255}, \A k \in 0 .. n - 1 : byte(k) = v
      PROVE  IntensityAt(f, x, y) = v
  <2>1. CASE f.format = "Gray8"
    BY <1>5, <1>6, <2>1
  <2>2. CASE f.format # "Gray8"
    <3>1. byte(0) = v /\ byte(1) = v /\ byte(2) = v
      BY <1>5, <1>6, <2>2
    <3>2. 0 \in Bytes /\ 255 \in Bytes
      BY DEF Bytes
    <3>3. Luminance(v, v, v) = v
      BY <3>2, LuminanceIsByte
    <3> QED
      BY <1>5, <2>2, <3>1, <3>3
  <2> QED
    BY <2>1, <2>2
<1>7. ASSUME White(f, x, y) PROVE IntensityAt(f, x, y) = 255
  <2>1. \A k \in 0 .. n - 1 : byte(k) = 255
    BY <1>4, <1>7 DEF White
  <2> QED
    BY <1>6, <2>1
<1>8. ASSUME Black(f, x, y) PROVE IntensityAt(f, x, y) = 0
  <2>1. \A k \in 0 .. n - 1 : byte(k) = 0
    BY <1>4, <1>8 DEF Black
  <2> QED
    BY <1>6, <2>1
<1> QED
  BY <1>7, <1>8

(* The order of the color bytes makes no difference to the estimate.       *)
LEMMA SwappedLooksTheSame ==
  ASSUME NEW f \in Frames, IsFrameValid(f), f.format # "Gray8"
  PROVE  Intensities(Swapped(f)) = Intensities(f)
<1> DEFINE g == Swapped(f)
           s == f.stride
           swap(i) == LET x == ((i - 1) % s) \div 3
                          c == ((i - 1) % s) % 3
                      IN IF (i - 1) \div s < f.height /\ x < f.width
                         THEN f.data[i + 2 - 2 * c] ELSE f.data[i]
<1>1. /\ g.format = IF f.format = "RGB888" THEN "BGR888" ELSE "RGB888"
      /\ g.width = f.width /\ g.height = f.height /\ g.stride = s
      /\ g.data = [i \in DOMAIN f.data |-> swap(i)]
  <2>1. f \in [format: {"Gray8", "RGB888", "BGR888"}, width: Int,
               height: Int, stride: Int, data: Seq(Bytes)]
    BY FramesAssumption
  <2> QED
    BY <2>1 DEF Swapped
<1>2. f.format \in {"RGB888", "BGR888"} /\ BytesPerPixel(f.format) = 3
      /\ BytesPerPixel(g.format) = 3
  BY <1>1, FrameTypes DEF BytesPerPixel
<1>3. f.data \in Seq(Bytes) /\ DOMAIN f.data = 1 .. Len(f.data)
  BY FrameTypes, LenProperties
<1> HIDE DEF g
<1>4. Columns(g) = Columns(f) /\ Rows(g) = Rows(f)
  BY <1>1 DEF Columns, Rows
<1>5. ASSUME NEW x \in Columns(f), NEW y \in Rows(f)
      PROVE  IntensityAt(g, x, y) = IntensityAt(f, x, y)
  <2> DEFINE at == y * s + x * 3
  <2>1. \A k \in 0 .. 2 : /\ at \in Nat
                          /\ at + k + 1 \in 1 .. Len(f.data)
                          /\ (at + k) \div s = y
                          /\ (at + k) % s = x * 3 + k
    <3> DEFINE n == BytesPerPixel(f.format)
               from == y * s + x * n
    <3>1. \A k \in 0 .. n - 1 : /\ from \in Nat
                                /\ from + k + 1 \in 1 .. Len(f.data)
                                /\ (from + k) \div s = y
                                /\ (from + k) % s = x * n + k
      BY PixelBytes
    <3>2. n = 3
      BY <1>2
    <3> HIDE DEF n
    <3>3. from = at /\ n - 1 = 2 /\ x * n = x * 3
      BY <3>2
    <3> HIDE DEF from, at
    <3> QED
      BY <3>1, <3>3
  <2>2. x \in Nat /\ x < f.width /\ y \in Nat /\ y < f.height
    BY FrameTypes DEF Columns, Rows
  <2>3. s \in Int
    BY FrameTypes
  <2> HIDE DEF at
  <2>4. ASSUME NEW k \in 0 .. 2
        PROVE  g.data[at + k + 1] = f.data[at + (2 - k) + 1]
    <3> DEFINE i == at + k + 1
    <3>1. at \in Nat /\ i \in DOMAIN f.data
      BY <1>3, <2>1
    <3>2. i - 1 = at + k
      BY <3>1
    <3>3. (i - 1) \div s = y /\ (i - 1) % s = x * 3 + k
      BY <2>1, <3>2
    <3>4. (x * 3 + k) \div 3 = x /\ (x * 3 + k) % 3 = k
      BY <2>2
    <3>5. i + 2 - 2 * k = at + (2 - k) + 1
      BY <3>1
    <3> HIDE DEF i
    <3>6. swap(i) = f.data[i + 2 - 2 * k]
      BY <2>2, <3>3, <3>4
    <3>7. g.data[i] = swap(i)
      BY <1>1, <3>1
    <3> QED
      BY <3>5, <3>6, <3>7 DEF i
  <2>5. /\ g.data[at + 0 + 1] = f.data[at + 2 + 1]
        /\ g.data[at + 1 + 1] = f.data[at + 1 + 1]
        /\ g.data[at + 2 + 1] = f.data[at + 0 + 1]
    <3>1. 2 - 0 = 2 /\ 2 - 1 = 1 /\ 2 - 2 = 0
      OBVIOUS
    <3> QED
      BY <2>4, <3>1
  <2> DEFINE b(h, k) == h.data[at + k + 1]
  <2>6. IntensityAt(f, x, y) = IF f.format = "RGB888"
                               THEN Luminance(b(f, 0), b(f, 1), b(f, 2))
                               ELSE Luminance(b(f, 2), b(f, 1), b(f, 0))
    BY <1>2 DEF IntensityAt, at
  <2>7. IntensityAt(g, x, y) = IF g.format = "RGB888"
                               THEN Luminance(b(g, 0), b(g, 1), b(g, 2))
                               ELSE Luminance(b(g, 2), b(g, 1), b(g, 0))
    BY <1>1, <1>2 DEF IntensityAt, at
  <2> DEFINE first == b(f, 0)
             middle == b(f, 1)
             last == b(f, 2)
  <2>8. /\ IntensityAt(f, x, y) = IF f.format = "RGB888"
                                  THEN Luminance(first, middle, last)
                                  ELSE Luminance(last, middle, first)
        /\ IntensityAt(g, x, y) = IF g.format = "RGB888"
                                  THEN Luminance(last, middle, first)
                                  ELSE Luminance(first, middle, last)
    BY <2>5, <2>6, <2>7
  <2> HIDE DEF first, middle, last
  <2>9. f.format = "RGB888" <=> g.format # "RGB888"
    BY <1>1, <1>2
  <2> QED
    BY <2>8, <2>9
<1>6. \A p \in Columns(f) \X Rows(f) :
        IntensityAt(g, p[1], p[2]) = IntensityAt(f, p[1], p[2])
  BY <1>5
<1>7. Intensities(g) = Intensities(f)
  BY <1>4, <1>6 DEF Intensities
<1> QED
  BY <1>7 DEF g

-----------------------------------------------------------------------------
(* SunTracker: the confidence and the centroid.                            *)

(* A confidence is a fraction of one, and positive from one pixel more     *)
(* than are required.                                                      *)
LEMMA ConfidenceIs ==
  ASSUME NEW count \in Nat, NEW needed \in Nat
  PROVE  LET c == Confidence(count, needed)
         IN /\ c \in Fraction /\ Leq(c, One)
            /\ Lt(Zero, c) <=> count > needed /\ count > 1
<1> DEFINE minPix == IF needed < 1 THEN 1 ELSE needed
           m == 9 * minPix
           a == Lowest(count - minPix, m)
           b == Clamp(a, Zero, One)
           x == ClampInt(count - minPix, 0, m)
           g == ConfidenceScale[1]
           h == ConfidenceScale[2]
           c == Clamp(Times(b, ConfidenceScale), Zero, One)
           y == ClampInt(x * g, 0, m * h)
<1>1. /\ minPix \in Nat /\ minPix >= 1
      /\ count > minPix <=> count > needed /\ count > 1
  OBVIOUS
<1>2. Confidence(count, needed) = c
  BY DEF Confidence
<1> HIDE DEF minPix
<1>3. m \in Int /\ m > 0 /\ count - minPix \in Int
  BY <1>1
<1>4. x \in Int /\ x >= 0 /\ (x > 0 <=> count > minPix)
  BY <1>1 DEF ClampInt
<1>5. g \in Int /\ h \in Int /\ h > 0 /\ Is(ConfidenceScale, g, h)
  BY ScaleAssumption, IsItself DEF Fraction
<1>6. g > 0
  <2>1. Is(Zero, 0, h)
    BY <1>5, IsZeroOrOne
  <2>2. ~(g <= 0)
    BY <1>5, <2>1, LeqIs, ScaleAssumption DEF Lt
  <2> QED
    BY <1>5, <2>2
<1> HIDE DEF m, g, h
<1>7. Is(a, count - minPix, m)
  BY <1>3, IsLowest
<1> HIDE DEF a
<1>8. Is(b, x, m)
  BY <1>3, <1>7, IsZeroOrOne, IsClamp
<1> HIDE DEF b, x
<1>9. Is(Times(b, ConfidenceScale), x * g, m * h)
  BY <1>5, <1>8, IsTimes
<1>10. /\ m * h \in Int /\ m * h > 0 /\ x * g \in Int /\ x * g >= 0
       /\ x * g > 0 <=> x > 0
  <2>1. x = 0 => x * g = 0
    BY <1>5
  <2> QED
    BY <1>3, <1>4, <1>5, <1>6, <2>1, IntProducts
<1>11. Is(c, y, m * h) /\ Is(Zero, 0, m * h) /\ Is(One, m * h, m * h)
  <2>1. Is(Zero, 0, m * h) /\ Is(One, m * h, m * h)
    BY <1>10, IsZeroOrOne
  <2> QED
    BY <1>9, <2>1, IsClamp
<1>12. y \in Int /\ y <= m * h /\ (y > 0 <=> count > minPix)
  <2> DEFINE xg == x * g
             mh == m * h
  <2> HIDE DEF xg, mh
  <2>1. mh \in Int /\ mh > 0 /\ xg \in Int /\ xg >= 0 /\ (xg > 0 <=> x > 0)
    BY <1>10 DEF xg, mh
  <2>2. ClampInt(xg, 0, mh) \in Int /\ ClampInt(xg, 0, mh) <= mh
        /\ (ClampInt(xg, 0, mh) > 0 <=> x > 0)
    BY <2>1 DEF ClampInt
  <2> QED
    BY <1>4, <2>2 DEF xg, mh
<1> HIDE DEF c, y
<1>13. c \in Fraction /\ Leq(c, One)
  BY <1>11, <1>12, LeqIs DEF Is
<1>14. Lt(Zero, c) <=> ~(y <= 0)
  BY <1>11, LeqIs DEF Lt
<1> QED
  BY <1>1, <1>2, <1>12, <1>13, <1>14

(* The parts of Centroid, by name.                                         *)
Bright(px, t) == {p \in DOMAIN px : px[p] >= t}
Weight(px, t) ==
  [p \in Bright(px, t) |-> IF \E b \in Bright(px, t) : px[b] > 0
                           THEN px[p] ELSE 1]
Moments(px, t, axis) ==
  [p \in Bright(px, t) |-> Weight(px, t)[p] * p[axis]]
Mean(px, t, axis) ==
  Lowest(SumFunction(Moments(px, t, axis)), SumFunction(Weight(px, t)))

(* Centroid, with its parts called by their names.                         *)
LEMMA CentroidIs ==
  ASSUME NEW px, NEW t, NEW needed
  PROVE  LET count == Cardinality(Bright(px, t))
         IN Centroid(px, t, needed) =
              IF count < needed THEN NothingSeen
              ELSE [cx |-> IF count = 0 THEN NaN ELSE Mean(px, t, 1),
                    cy |-> IF count = 0 THEN NaN ELSE Mean(px, t, 2),
                    confidence |-> Confidence(count, needed)]
BY DEF Centroid, Bright, Weight, Moments, Mean

(* The sums are of natural numbers, and there is weight if any is bright.  *)
LEMMA WeightsAndMoments ==
  ASSUME NEW D \in SUBSET (Nat \X Nat), IsFiniteSet(D),
         NEW px \in [D -> Bytes], NEW t \in Int
  PROVE  /\ Bright(px, t) \in SUBSET D /\ IsFiniteSet(Bright(px, t))
         /\ Cardinality(Bright(px, t)) \in Nat
         /\ Cardinality(Bright(px, t)) = 0 <=> Bright(px, t) = {}
         /\ Weight(px, t) \in [Bright(px, t) -> Nat]
         /\ \A axis \in 1 .. 2 : Moments(px, t, axis) \in [Bright(px, t) -> Nat]
         /\ SumFunction(Weight(px, t)) \in Nat
         /\ \A axis \in 1 .. 2 : SumFunction(Moments(px, t, axis)) \in Nat
         /\ Bright(px, t) # {} => SumFunction(Weight(px, t)) > 0
<1> DEFINE B == Bright(px, t)
           W == Weight(px, t)
<1>1. B \in SUBSET D /\ IsFiniteSet(B)
  <2>1. B \in SUBSET D
    BY DEF Bright
  <2> QED
    BY <2>1, FS_Subset
<1>2. Cardinality(B) \in Nat /\ (Cardinality(B) = 0 <=> B = {})
  BY <1>1, FS_CardinalityType, FS_EmptySet
<1>3. \A p \in B : px[p] \in Nat
  BY <1>1 DEF Bytes
<1>4. W = [p \in B |-> IF \E b \in B : px[b] > 0 THEN px[p] ELSE 1]
  BY DEF Weight
<1> HIDE DEF B, W
<1>5. W \in [B -> Nat]
  BY <1>3, <1>4
<1>6. ASSUME NEW axis \in 1 .. 2 PROVE Moments(px, t, axis) \in [B -> Nat]
  <2>1. \A p \in B : W[p] * p[axis] \in Nat
    <3> SUFFICES ASSUME NEW p \in B PROVE W[p] * p[axis] \in Nat
      OBVIOUS
    <3>1. p \in Nat \X Nat
      BY <1>1
    <3>2. p[1] \in Nat /\ p[2] \in Nat /\ W[p] \in Nat
      BY <1>5, <3>1
    <3>3. p[axis] \in Nat
      BY <3>2
    <3> QED
      BY <3>2, <3>3
  <2> QED
    BY <2>1 DEF Moments, B, W
<1>7. SumFunction(W) \in Nat /\ \A p \in B : W[p] <= SumFunction(W)
  BY <1>1, <1>5, SumBelow
<1>8. ASSUME NEW axis \in 1 .. 2
      PROVE  SumFunction(Moments(px, t, axis)) \in Nat
  BY <1>1, <1>6, SumBelow
<1>9. ASSUME B # {} PROVE SumFunction(W) > 0
  <2>1. PICK p \in B : W[p] > 0
    <3>1. CASE \E b \in B : px[b] > 0
      BY <1>4, <3>1
    <3>2. CASE ~(\E b \in B : px[b] > 0)
      BY <1>4, <1>9, <3>2
    <3> QED
      BY <3>1, <3>2
  <2>2. W[p] \in Nat
    BY <1>5
  <2> QED
    BY <1>7, <2>1, <2>2
<1> QED
  BY <1>1, <1>2, <1>5, <1>6, <1>7, <1>8, <1>9 DEF B, W

(* What an estimate is made of: a centroid that is no number comes without *)
(* any confidence.                                                         *)
Estimates ==
  {e \in [cx : Fraction \cup {NaN}, cy : Fraction \cup {NaN},
          confidence : Fraction] :
     Lt(Zero, e.confidence) => e.cx \in Fraction /\ e.cy \in Fraction}

(* The centroid of any pixels is an estimate, with a confidence of one at  *)
(* most.                                                                   *)
LEMMA CentroidType ==
  ASSUME NEW D \in SUBSET (Nat \X Nat), IsFiniteSet(D),
         NEW px \in [D -> Bytes], NEW t \in Int, NEW needed \in Nat
  PROVE  /\ Centroid(px, t, needed) \in Estimates
         /\ Leq(Centroid(px, t, needed).confidence, One)
<1> DEFINE e == Centroid(px, t, needed)
           count == Cardinality(Bright(px, t))
<1>1. /\ count \in Nat /\ (count = 0 <=> Bright(px, t) = {})
      /\ count # 0 => SumFunction(Weight(px, t)) > 0
      /\ SumFunction(Weight(px, t)) \in Nat
      /\ \A axis \in 1 .. 2 : SumFunction(Moments(px, t, axis)) \in Nat
  BY WeightsAndMoments
<1>2. e = IF count < needed THEN NothingSeen
          ELSE [cx |-> IF count = 0 THEN NaN ELSE Mean(px, t, 1),
                cy |-> IF count = 0 THEN NaN ELSE Mean(px, t, 2),
                confidence |-> Confidence(count, needed)]
  BY CentroidIs
<1>3. ASSUME count # 0, NEW axis \in 1 .. 2 PROVE Mean(px, t, axis) \in Fraction
  <2>1. Is(Mean(px, t, axis), SumFunction(Moments(px, t, axis)),
           SumFunction(Weight(px, t)))
    BY <1>1, <1>3, IsLowest DEF Mean
  <2> QED
    BY <2>1 DEF Is
<1>4. /\ Confidence(count, needed) \in Fraction
      /\ Leq(Confidence(count, needed), One)
      /\ Lt(Zero, Confidence(count, needed)) => count > 1
  BY <1>1, ConfidenceIs
<1> HIDE DEF e, count
<1>5. CASE count < needed
  <2>1. Zero \in Fraction /\ ~Lt(Zero, Zero) /\ Leq(Zero, One)
    BY DEF Zero, One, Fraction, Lt, Leq
  <2>2. e = NothingSeen
    BY <1>2, <1>5
  <2> QED
    BY <2>1, <2>2 DEF NothingSeen, Estimates, e
<1>6. CASE ~(count < needed)
  <2>1. e = [cx |-> IF count = 0 THEN NaN ELSE Mean(px, t, 1),
             cy |-> IF count = 0 THEN NaN ELSE Mean(px, t, 2),
             confidence |-> Confidence(count, needed)]
    BY <1>2, <1>6
  <2>2. /\ count # 0 => Mean(px, t, 1) \in Fraction
        /\ count # 0 => Mean(px, t, 2) \in Fraction
    BY <1>3
  <2>3. /\ e.cx \in Fraction \cup {NaN} /\ e.cy \in Fraction \cup {NaN}
        /\ e.confidence \in Fraction /\ Leq(e.confidence, One)
        /\ e \in [cx : Fraction \cup {NaN}, cy : Fraction \cup {NaN},
                  confidence : Fraction]
    BY <1>4, <2>1, <2>2
  <2>4. ASSUME Lt(Zero, e.confidence)
        PROVE  e.cx \in Fraction /\ e.cy \in Fraction
    <3>1. count # 0
      BY <1>1, <1>4, <2>1, <2>4
    <3> QED
      BY <2>1, <2>2, <3>1
  <2> QED
    BY <2>3, <2>4 DEF Estimates, e
<1> QED
  BY <1>5, <1>6

(* The pixels of a frame are finitely many, and their places numbers.      *)
LEMMA PlacesAreFinite ==
  ASSUME NEW f \in Frames
  PROVE  /\ Columns(f) \X Rows(f) \in SUBSET (Nat \X Nat)
         /\ IsFiniteSet(Columns(f) \X Rows(f))
<1>1. f.width \in Int /\ f.height \in Int
  BY FrameTypes
<1>2. Columns(f) \in SUBSET Nat /\ Rows(f) \in SUBSET Nat
  BY <1>1 DEF Columns, Rows
<1>3. IsFiniteSet(Columns(f)) /\ IsFiniteSet(Rows(f))
  BY <1>1, FS_Interval DEF Columns, Rows
<1>4. IsFiniteSet(Columns(f) \X Rows(f))
  BY <1>3, FS_Product
<1> QED
  BY <1>2, <1>4

(* So is what the tracker makes of a valid frame.                          *)
LEMMA EstimateType ==
  ASSUME NEW f \in Frames, IsFrameValid(f),
         NEW t \in Int, NEW needed \in Nat
  PROVE  /\ Estimate(f, t, needed) = Centroid(Intensities(f), t, needed)
         /\ Estimate(f, t, needed) \in Estimates
         /\ Leq(Estimate(f, t, needed).confidence, One)
<1>1. Estimate(f, t, needed) = Centroid(Intensities(f), t, needed)
  BY DEF Estimate, Intensities
<1> DEFINE D == Columns(f) \X Rows(f)
           px == Intensities(f)
<1>2. D \in SUBSET (Nat \X Nat) /\ IsFiniteSet(D)
  BY PlacesAreFinite
<1>3. px \in [D -> Bytes]
  BY IntensitiesAreBytes
<1> HIDE DEF D, px
<1>4. /\ Centroid(px, t, needed) \in Estimates
      /\ Leq(Centroid(px, t, needed).confidence, One)
  BY <1>2, <1>3, CentroidType
<1> QED
  BY <1>1, <1>4 DEF px

(* When all bright pixels are equally bright the centroid is their mean.   *)
LEMMA EvenWeight ==
  ASSUME NEW D \in SUBSET (Nat \X Nat), IsFiniteSet(D),
         NEW px \in [D -> Bytes], NEW t \in Int,
         NEW v \in Nat, v > 0, \A p \in Bright(px, t) : px[p] = v,
         Bright(px, t) # {}, NEW axis \in 1 .. 2
  PROVE  Mean(px, t, axis) =
           Lowest(SumFunction([p \in Bright(px, t) |-> p[axis]]),
                  Cardinality(Bright(px, t)))
<1> DEFINE B == Bright(px, t)
           W == Weight(px, t)
           M == Moments(px, t, axis)
           at == [p \in B |-> p[axis]]
           ones == [p \in B |-> 1]
<1>1. /\ B \in SUBSET D /\ IsFiniteSet(B) /\ B # {}
      /\ Cardinality(B) \in Nat /\ (Cardinality(B) = 0 <=> B = {})
      /\ W \in [B -> Nat] /\ M \in [B -> Nat]
      /\ SumFunction(W) \in Nat /\ SumFunction(M) \in Nat
  BY WeightsAndMoments
<1>2. \A p \in B : W[p] = v
  BY <1>1 DEF Weight
<1>3. at \in [B -> Nat] /\ ones \in [B -> Nat]
  <2>1. \A p \in B : p[axis] \in Nat
    <3> SUFFICES ASSUME NEW p \in B PROVE p[axis] \in Nat
      OBVIOUS
    <3>1. p \in Nat \X Nat
      BY <1>1
    <3>2. p[1] \in Nat /\ p[2] \in Nat
      BY <3>1
    <3> QED
      BY <3>2
  <2> HIDE DEF B
  <2> QED
    BY <2>1
<1>4. \A p \in B : M[p] = v * at[p] /\ at[p] \in Nat
  <2>1. \A p \in B : M[p] = W[p] * p[axis] /\ at[p] = p[axis]
    BY DEF Moments
  <2> QED
    BY <1>2, <1>3, <2>1
<1> HIDE DEF B, W, M, at
<1>5. \A p \in B : W[p] = v * ones[p] /\ ones[p] \in Nat /\ ones[p] = 1
  BY <1>2
<1> HIDE DEF ones
<1>6. SumFunction(at) \in Nat /\ SumFunction(ones) \in Nat
  BY <1>1, <1>3, SumBelow
<1>7. v * SumFunction(at) <= SumFunction(M) /\ SumFunction(M) <= v * SumFunction(at)
  <2>1. \A p \in B : v * at[p] <= M[p] /\ M[p] <= v * at[p]
    BY <1>4
  <2>2. v \in Int
    OBVIOUS
  <2> QED
    BY <1>1, <1>3, <2>1, <2>2, SumBetween
<1>8. v * SumFunction(ones) <= SumFunction(W)
      /\ SumFunction(W) <= v * SumFunction(ones)
  <2>1. \A p \in B : v * ones[p] <= W[p] /\ W[p] <= v * ones[p]
    BY <1>5
  <2>2. v \in Int
    OBVIOUS
  <2> QED
    BY <1>1, <1>3, <2>1, <2>2, SumBetween
<1>9. SumFunction(ones) = Cardinality(B)
  BY <1>1, <1>3, <1>5, SumOfOnes
<1>10. /\ SumFunction(M) = v * SumFunction(at)
       /\ SumFunction(W) = v * Cardinality(B)
  <2>1. v * SumFunction(at) \in Nat /\ v * Cardinality(B) \in Nat
    BY <1>1, <1>6
  <2>2. SumFunction(M) = v * SumFunction(at)
    <3> DEFINE a == v * SumFunction(at)
               b == SumFunction(M)
    <3>1. a \in Nat /\ b \in Nat /\ a <= b /\ b <= a
      BY <1>1, <1>7, <2>1
    <3> HIDE DEF a, b
    <3>2. a = b
      BY <3>1
    <3> QED
      BY <3>2 DEF a, b
  <2>3. SumFunction(W) = v * Cardinality(B)
    <3> DEFINE a == v * Cardinality(B)
               b == SumFunction(W)
    <3>1. a \in Nat /\ b \in Nat /\ a <= b /\ b <= a
      BY <1>1, <1>8, <1>9, <2>1
    <3> HIDE DEF a, b
    <3>2. a = b
      BY <3>1
    <3> QED
      BY <3>2 DEF a, b
  <2> QED
    BY <2>2, <2>3
<1>11. Cardinality(B) > 0
  BY <1>1
<1>12. Mean(px, t, axis) = Lowest(SumFunction(at), Cardinality(B))
  <2>1. Mean(px, t, axis) = Lowest(SumFunction(M), SumFunction(W))
    BY DEF Mean, M, W
  <2>2. SumFunction(at) \in Int /\ Cardinality(B) \in Int
    BY <1>1, <1>6
  <2> QED
    BY <1>10, <1>11, <2>1, <2>2, LowestScaled
<1> QED
  BY <1>12 DEF at, B

(* The tracker sees the picture, for every frame, threshold and count.     *)
LEMMA PictureIsSeen ==
  ASSUME NEW f \in Frames, IsFrameValid(f),
         threshold \in Bytes, minPixels \in Nat
  PROVE  SeesThePicture(f, Estimate(f, threshold, minPixels))
<1> DEFINE e == Estimate(f, threshold, minPixels)
           D == Columns(f) \X Rows(f)
           px == Intensities(f)
           white == {p \in D : White(f, p[1], p[2])}
           n == Cardinality(white)
           blackAndWhite == \A x \in Columns(f), y \in Rows(f) :
                              White(f, x, y) \/ Black(f, x, y)
           B == Bright(px, threshold)
           count == Cardinality(B)
           conf == Confidence(count, minPixels)
<1>1. threshold \in 0 .. 255 /\ threshold \in Int /\ minPixels \in Nat
  BY DEF Bytes
<1>2. /\ e = Centroid(px, threshold, minPixels)
      /\ Leq(e.confidence, One)
  BY <1>1, EstimateType
<1>3. ASSUME f.format # "Gray8"
      PROVE  e = Estimate(Swapped(f), threshold, minPixels)
  <2>1. Estimate(Swapped(f), threshold, minPixels) =
          Centroid(Intensities(Swapped(f)), threshold, minPixels)
    BY DEF Estimate, Intensities
  <2> QED
    BY <1>2, <1>3, <2>1, SwappedLooksTheSame
<1>4. /\ D \in SUBSET (Nat \X Nat) /\ IsFiniteSet(D)
      /\ px \in [D -> Bytes]
  BY PlacesAreFinite, IntensitiesAreBytes
<1>5. e = IF count < minPixels THEN NothingSeen
          ELSE [cx |-> IF count = 0 THEN NaN ELSE Mean(px, threshold, 1),
                cy |-> IF count = 0 THEN NaN ELSE Mean(px, threshold, 2),
                confidence |-> conf]
  BY <1>2, CentroidIs
<1>6. ASSUME blackAndWhite, threshold > 0
      PROVE  /\ Lt(Zero, e.confidence) <=> n > minPixels /\ n > 1
             /\ n >= minPixels /\ n > 0 =>
                  /\ e.cx = Lowest(SumFunction([p \in white |-> p[1]]), n)
                  /\ e.cy = Lowest(SumFunction([p \in white |-> p[2]]), n)
  <2>1. \A p \in D : (White(f, p[1], p[2]) => px[p] = 255)
                     /\ (~White(f, p[1], p[2]) => px[p] = 0)
    <3> SUFFICES ASSUME NEW p \in D
                 PROVE  (White(f, p[1], p[2]) => px[p] = 255)
                        /\ (~White(f, p[1], p[2]) => px[p] = 0)
      OBVIOUS
    <3>1. p[1] \in Columns(f) /\ p[2] \in Rows(f)
      OBVIOUS
    <3>2. px[p] = IntensityAt(f, p[1], p[2])
      BY DEF Intensities
    <3> QED
      BY <1>6, <3>1, <3>2, WhiteAndBlack
  <2>2. DOMAIN px = D
    BY <1>4
  <2> HIDE DEF px, D
  <2>3. B = white /\ \A p \in B : px[p] = 255
    BY <1>1, <1>6, <2>1, <2>2 DEF Bright
  <2>4. count = n
    BY <2>3
  <2> HIDE DEF white, B, n
  <2>5. /\ count \in Nat /\ (count = 0 <=> B = {})
    BY <1>1, <1>4, WeightsAndMoments DEF B
  <2>6. Lt(Zero, e.confidence) <=> n > minPixels /\ n > 1
    <3>1. CASE count < minPixels
      <4>1. ~Lt(Zero, Zero)
        BY DEF Zero, Lt, Leq
      <4>2. e.confidence = Zero
        BY <1>5, <3>1 DEF NothingSeen
      <4>3. ~(n > minPixels)
        BY <1>1, <2>4, <2>5, <3>1
      <4> QED
        BY <4>1, <4>2, <4>3
    <3>2. CASE ~(count < minPixels)
      <4>1. e.confidence = conf
        BY <1>5, <3>2
      <4>2. Lt(Zero, conf) <=> count > minPixels /\ count > 1
        BY <1>1, <2>5, ConfidenceIs
      <4> QED
        BY <2>4, <4>1, <4>2
    <3> QED
      BY <3>1, <3>2
  <2>7. ASSUME n >= minPixels, n > 0
        PROVE  /\ e.cx = Lowest(SumFunction([p \in white |-> p[1]]), n)
               /\ e.cy = Lowest(SumFunction([p \in white |-> p[2]]), n)
    <3>1. B # {} /\ count # 0 /\ ~(count < minPixels)
      BY <1>1, <2>4, <2>5, <2>7
    <3>2. e.cx = Mean(px, threshold, 1) /\ e.cy = Mean(px, threshold, 2)
      BY <1>5, <3>1
    <3>3. ASSUME NEW axis \in 1 .. 2
          PROVE  Mean(px, threshold, axis) =
                   Lowest(SumFunction([p \in B |-> p[axis]]), count)
      <4>1. 255 \in Nat /\ 255 > 0
        OBVIOUS
      <4> QED
        BY <1>1, <1>4, <2>3, <3>1, <4>1, EvenWeight DEF B
    <3>4. /\ Mean(px, threshold, 1) =
               Lowest(SumFunction([p \in B |-> p[1]]), count)
          /\ Mean(px, threshold, 2) =
               Lowest(SumFunction([p \in B |-> p[2]]), count)
      BY <3>3
    <3> HIDE DEF count
    <3> QED
      BY <2>3, <2>4, <3>2, <3>4
  <2> QED
    BY <2>6, <2>7
<1> HIDE DEF e, blackAndWhite, n, white
<1> QED
  BY <1>2, <1>3, <1>6 DEF SeesThePicture, e, blackAndWhite, n, white, D

-----------------------------------------------------------------------------
(* SunTracker and the picture the simulated camera draws.                  *)

(* The radius is at least one pixel.                                       *)
LEMMA RadiusType == Radius \in Int /\ Radius >= 1
BY SpotAssumption DEF Radius

(* A disc reaches no further than its radius, and misses the corners of    *)
(* the square around it.                                                   *)
LEMMA InSpotWithin ==
  ASSUME NEW m \in Int \X Int, NEW x \in Int, NEW y \in Int, InSpot(m, x, y)
  PROVE  /\ m[1] - Radius <= x /\ x <= m[1] + Radius
         /\ m[2] - Radius <= y /\ y <= m[2] + Radius
         /\ InSpot(m, 2 * m[1] - x, 2 * m[2] - y)
<1> DEFINE a == x - m[1]
           b == y - m[2]
<1>1. m[1] \in Int /\ m[2] \in Int
  OBVIOUS
<1>2. a \in Int /\ b \in Int /\ a * a + b * b <= Radius * Radius
  BY <1>1 DEF InSpot
<1>3. b * b + a * a <= Radius * Radius
  BY <1>2
<1> HIDE DEF a, b
<1>4. -Radius <= a /\ a <= Radius /\ -Radius <= b /\ b <= Radius
  BY <1>2, <1>3, RadiusType, WithinRadius
<1>5. InSpot(m, 2 * m[1] - x, 2 * m[2] - y)
  <2>1. (2 * m[1] - x) - m[1] = -a /\ (2 * m[2] - y) - m[2] = -b
    BY <1>1 DEF a, b
  <2>2. (-a) * (-a) = a * a /\ (-b) * (-b) = b * b
    BY <1>2
  <2> QED
    BY <1>2, <2>1, <2>2 DEF InSpot
<1> QED
  BY <1>1, <1>4, <1>5, RadiusType DEF a, b

(* The corners of the square around a disc are not in it.                  *)
LEMMA CornerOutside ==
  ASSUME NEW m \in Int \X Int
  PROVE  ~InSpot(m, m[1] - Radius, m[2] - Radius)
<1>1. m[1] \in Int /\ m[2] \in Int /\ Radius \in Int /\ Radius >= 1
  BY RadiusType
<1>2. (m[1] - Radius) - m[1] = -Radius /\ (m[2] - Radius) - m[2] = -Radius
  BY <1>1
<1>3. (-Radius) * (-Radius) = Radius * Radius /\ Radius * Radius > 0
      /\ Radius * Radius \in Int
  BY <1>1, IntProducts
<1> QED
  BY <1>2, <1>3 DEF InSpot

(* What is weighed lies around a place, so does the centroid.              *)
LEMMA MeanIsNear ==
  ASSUME NEW D \in SUBSET (Nat \X Nat), IsFiniteSet(D),
         NEW px \in [D -> Bytes], NEW t \in Int,
         Bright(px, t) # {}, NEW axis \in 1 .. 2, NEW i \in Int,
         \A p \in Bright(px, t) : i - Radius <= p[axis] /\ p[axis] <= i + Radius
  PROVE  Near(Mean(px, t, axis), i)
<1> DEFINE B == Bright(px, t)
           W == Weight(px, t)
           M == Moments(px, t, axis)
           S == SumFunction(W)
           N == SumFunction(M)
           lo == i - Radius
           hi == i + Radius
<1>1. /\ B \in SUBSET D /\ IsFiniteSet(B)
      /\ W \in [B -> Nat] /\ M \in [B -> Nat]
      /\ S \in Nat /\ N \in Nat /\ S > 0
  BY WeightsAndMoments
<1>2. lo \in Int /\ hi \in Int /\ Radius \in Int
  BY RadiusType
<1>3. \A p \in B : lo * W[p] <= M[p] /\ M[p] <= hi * W[p]
  <2> SUFFICES ASSUME NEW p \in B
               PROVE  lo * W[p] <= M[p] /\ M[p] <= hi * W[p]
    OBVIOUS
  <2>1. M[p] = W[p] * p[axis] /\ W[p] \in Nat
    BY <1>1 DEF Moments
  <2>2. p[axis] \in Int
    <3>1. p \in Nat \X Nat
      BY <1>1
    <3>2. p[1] \in Nat /\ p[2] \in Nat
      BY <3>1
    <3> QED
      BY <3>2
  <2> DEFINE w == W[p]
             c == p[axis]
  <2>3. w \in Int /\ w >= 0 /\ c \in Int /\ lo <= c /\ c <= hi
    BY <2>1, <2>2
  <2> HIDE DEF w, c, lo, hi
  <2>4. w * lo <= w * c /\ w * c <= w * hi
    BY <1>2, <2>3, Scaled
  <2>5. w * lo = lo * w /\ w * hi = hi * w
    BY <1>2, <2>3
  <2> QED
    BY <2>1, <2>4, <2>5 DEF w, c
<1> HIDE DEF lo, hi, B, W, M, S, N
<1>4. lo * S <= N /\ N <= hi * S
  BY <1>1, <1>2, <1>3, SumBetween DEF S, N
<1>5. Is(Mean(px, t, axis), N, S)
  BY <1>1, IsLowest DEF Mean, N, S, W, M
<1>6. Is(<<i, 1>>, i * S, S) /\ Is(<<Radius, 1>>, Radius * S, S)
  <2>1. S \in Int /\ i * S \in Int /\ Radius * S \in Int
    BY <1>1, <1>2
  <2>2. <<i, 1>> \in Fraction /\ <<Radius, 1>> \in Fraction
    BY <1>2 DEF Fraction
  <2>3. i * S = (i * S) * 1 /\ Radius * S = (Radius * S) * 1
    BY <2>1
  <2> QED
    BY <1>1, <2>1, <2>2, <2>3 DEF Is
<1> DEFINE z == N - i * S
<1>7. Is(Abs(Minus(Mean(px, t, axis), <<i, 1>>)), AbsInt(z), S)
  BY <1>5, <1>6, IsMinus, IsAbs
<1>8. AbsInt(z) <= Radius * S
  <2>1. lo * S = i * S - Radius * S /\ hi * S = i * S + Radius * S
    BY <1>1, <1>2 DEF lo, hi
  <2> DEFINE a == i * S
             b == Radius * S
  <2>2. a \in Int /\ b \in Int /\ N \in Int
    BY <1>1, <1>2
  <2>3. lo * S = a - b /\ hi * S = a + b
    BY <2>1
  <2> HIDE DEF a, b
  <2>4. a - b <= N /\ N <= a + b
    BY <1>4, <2>3
  <2>5. AbsInt(N - a) <= b
    BY <2>2, <2>4 DEF AbsInt
  <2> QED
    BY <2>5 DEF a, b
<1> QED
  BY <1>6, <1>7, <1>8, LeqIs DEF Near

(* The mean of places that lie point-symmetrically around m is m.          *)
LEMMA MeanOfSymmetric ==
  ASSUME NEW B \in SUBSET (Nat \X Nat), IsFiniteSet(B), B # {},
         NEW m \in Nat \X Nat,
         \A p \in B : <<2 * m[1] - p[1], 2 * m[2] - p[2]>> \in B,
         NEW axis \in 1 .. 2
  PROVE  Lowest(SumFunction([p \in B |-> p[axis]]), Cardinality(B)) =
           <<m[axis], 1>>
<1> DEFINE other(p) == <<2 * m[1] - p[1], 2 * m[2] - p[2]>>
           r == [p \in B |-> other(p)]
           at == [p \in B |-> p[axis]]
           c == m[axis]
           n == Cardinality(B)
<1>1. m[1] \in Nat /\ m[2] \in Nat /\ c \in Nat
  <2>1. m[1] \in Nat /\ m[2] \in Nat
    OBVIOUS
  <2> QED
    BY <2>1
<1>2. ASSUME NEW p \in B
      PROVE  /\ p[axis] \in Nat
             /\ other(p) \in B /\ other(other(p)) = p
             /\ p[axis] + other(p)[axis] = 2 * c
  <2>1. p \in Nat \X Nat
    OBVIOUS
  <2>2. p[1] \in Nat /\ p[2] \in Nat /\ p = <<p[1], p[2]>>
    BY <2>1
  <2>3. other(p) \in B /\ other(p)[1] = 2 * m[1] - p[1]
        /\ other(p)[2] = 2 * m[2] - p[2]
    OBVIOUS
  <2>4. other(other(p)) =
          <<2 * m[1] - (2 * m[1] - p[1]), 2 * m[2] - (2 * m[2] - p[2])>>
    OBVIOUS
  <2>5. 2 * m[1] - (2 * m[1] - p[1]) = p[1]
        /\ 2 * m[2] - (2 * m[2] - p[2]) = p[2]
    BY <1>1, <2>2
  <2>6. other(other(p)) = p
    BY <2>2, <2>4, <2>5
  <2> HIDE DEF other
  <2>7. CASE axis = 1
    BY <1>1, <2>2, <2>3, <2>6, <2>7
  <2>8. CASE axis = 2
    BY <1>1, <2>2, <2>3, <2>6, <2>8
  <2> QED
    BY <2>7, <2>8
<1> HIDE DEF other
<1>3. /\ at \in [B -> Nat] /\ r \in [B -> B]
      /\ \A p \in B : r[r[p]] = p /\ at[p] + at[r[p]] = 2 * c
  <2>1. at \in [B -> Nat] /\ r \in [B -> B]
    BY <1>2
  <2>2. ASSUME NEW p \in B PROVE r[r[p]] = p /\ at[p] + at[r[p]] = 2 * c
    <3>1. other(p) \in B /\ r[p] = other(p) /\ r[other(p)] = other(other(p))
          /\ at[p] = p[axis] /\ at[other(p)] = other(p)[axis]
      BY <1>2
    <3> QED
      BY <1>2, <3>1
  <2> QED
    BY <2>1, <2>2
<1> HIDE DEF at, r, c
<1>4. SumFunction(at) = n * c
  BY <1>1, <1>3, SumOfPairs DEF c
<1>5. n \in Nat /\ n > 0
  <2>1. n \in Nat /\ n # 0
    BY FS_CardinalityType, FS_EmptySet
  <2> QED
    BY <2>1
<1>6. Lowest(n * c, n * 1) = Lowest(c, 1)
  <2>1. 1 \in Int /\ 1 > 0 /\ n \in Nat /\ n > 0 /\ c \in Int
    BY <1>1, <1>5
  <2> QED
    BY <2>1, LowestScaled, Zenon
<1>7. n * 1 = n
  BY <1>5
<1>8. Lowest(SumFunction(at), n) = <<c, 1>>
  BY <1>1, <1>4, <1>6, <1>7, LowestWhole
<1> QED
  BY <1>8 DEF at, c

(* What is drawn of a frame's pixels.                                      *)
LEMMA PictureBytes ==
  ASSUME NEW f \in Frames, IsFrameValid(f),
         NEW m \in Middles(f.width, f.height), IsPictureOf(f, m),
         NEW t \in Bytes,
         \A noise \in Noises : /\ Byte(Background + noise) < t
                               /\ t <= Byte(SpotValue + noise)
  PROVE  /\ m \in Int \X Int
         /\ \A p \in Columns(f) \X Rows(f) :
              /\ Intensities(f)[p] \in {f.data[i] : i \in DOMAIN f.data}
              /\ Intensities(f)[p] >= t <=> InSpot(m, p[1], p[2])
<1> DEFINE w == f.width
           h == f.height
           clean == GenerateFrame(w, h, m, [i \in 1 .. w * h |-> 0])
           V(i) == IF InSpot(m, (i - 1) % w, (i - 1) \div w)
                   THEN SpotValue ELSE Background
<1>1. /\ f \in [format: {"Gray8", "RGB888", "BGR888"}, width: Int,
                height: Int, stride: Int, data: Seq(Bytes)]
      /\ w \in Int /\ h \in Int
      /\ f.data \in Seq(Bytes) /\ Len(f.data) \in Nat
      /\ DOMAIN f.data = 1 .. Len(f.data)
  BY FramesAssumption, FrameTypes, LenProperties
<1>2. m \in Int \X Int
  BY <1>1 DEF Middles
<1>3. /\ clean = [format |-> "Gray8", width |-> w, height |-> h,
                  stride |-> w, data |-> clean.data]
      /\ clean.data = [i \in 1 .. w * h |-> Byte(0 + V(i))]
  BY DEF GenerateFrame
<1>4. /\ [f EXCEPT !.data = clean.data] = clean
      /\ \A i \in DOMAIN clean.data :
           f.data[i] \in {Byte(clean.data[i] + noise) : noise \in Noises}
  BY DEF IsPictureOf
<1> HIDE DEF clean
<1>5. f.format = "Gray8" /\ f.stride = w
  <2>1. /\ [f EXCEPT !.data = clean.data].format = f.format
        /\ [f EXCEPT !.data = clean.data].stride = f.stride
    BY <1>1
  <2>2. clean.format = "Gray8" /\ clean.stride = w
    BY <1>3
  <2> QED
    BY <1>4, <2>1, <2>2
<1>6. w > 0 /\ h > 0
  BY <1>1 DEF IsFrameValid
<1>7. BytesPerPixel(f.format) = 1
  BY <1>5 DEF BytesPerPixel
<1>8. ASSUME NEW x \in Columns(f), NEW y \in Rows(f)
      PROVE  /\ IntensityAt(f, x, y) \in {f.data[i] : i \in DOMAIN f.data}
             /\ IntensityAt(f, x, y) >= t <=> InSpot(m, x, y)
  <2> DEFINE i == y * w + x + 1
  <2>1. x \in 0 .. w - 1 /\ y \in 0 .. h - 1
    BY DEF Columns, Rows
  <2>2. y * w + x * 1 = y * w + x /\ x * 1 + 0 = x /\ y * w + x \in Nat
    BY <1>1, <1>6, <2>1, IntProducts
  <2>3. /\ i \in 1 .. Len(f.data) /\ f.data[i] \in Bytes
        /\ (i - 1) \div w = y /\ (i - 1) % w = x
    <3>1. /\ (y * w + x * 1) + 0 + 1 \in 1 .. Len(f.data)
          /\ f.data[(y * w + x * 1) + 0 + 1] \in Bytes
          /\ ((y * w + x * 1) + 0) \div w = y
          /\ ((y * w + x * 1) + 0) % w = x * 1 + 0
      <4> DEFINE n == BytesPerPixel(f.format)
                 at == y * f.stride + x * n
      <4>1. \A k \in 0 .. n - 1 :
              /\ at \in Nat
              /\ at + k + 1 \in 1 .. Len(f.data)
              /\ f.data[at + k + 1] \in Bytes
              /\ (at + k) \div f.stride = y
              /\ (at + k) % f.stride = x * n + k
        BY PixelBytes
      <4>2. n = 1 /\ f.stride = w /\ at = y * w + x * 1
        BY <1>5, <1>7
      <4>3. 0 \in 0 .. n - 1
        BY <4>2
      <4> HIDE DEF n, at
      <4>4. /\ at + 0 + 1 \in 1 .. Len(f.data)
            /\ f.data[at + 0 + 1] \in Bytes
            /\ (at + 0) \div f.stride = y
            /\ (at + 0) % f.stride = x * n + 0
        BY <4>1, <4>3, Zenon
      <4> QED
        BY <4>2, <4>4
    <3>2. (y * w + x * 1) + 0 + 1 = i /\ (y * w + x * 1) + 0 = i - 1
      BY <2>2
    <3> QED
      BY <2>2, <3>1, <3>2
  <2>4. IntensityAt(f, x, y) = f.data[i]
    <3>1. IntensityAt(f, x, y) = f.data[(y * w + x * 1) + 0 + 1]
      BY <1>5, <1>7 DEF IntensityAt
    <3>2. (y * w + x * 1) + 0 + 1 = i
      BY <2>2
    <3> QED
      BY <3>1, <3>2
  <2>5. i \in 1 .. w * h
    <3>1. w * (y + 1) <= w * h /\ w * (y + 1) = y * w + w
          /\ w * h \in Int /\ y * w \in Int
      <4>1. y + 1 \in Int /\ y + 1 <= h /\ w >= 0
        BY <1>1, <1>6, <2>1
      <4>2. w * (y + 1) <= w * h
        BY <1>1, <4>1, Scaled
      <4> QED
        BY <1>1, <2>1, <4>2
    <3> DEFINE a == y * w
               b == w * h
    <3>2. /\ a \in Int /\ b \in Int /\ a + w <= b /\ a + x \in Nat
          /\ x \in Int /\ x < w /\ w \in Int
      BY <1>1, <2>1, <2>2, <3>1
    <3> HIDE DEF a, b
    <3>3. a + x + 1 \in 1 .. b
      BY <3>2
    <3> QED
      BY <3>3 DEF a, b
  <2> HIDE DEF i
  <2>6. clean.data[i] = V(i) /\ V(i) = IF InSpot(m, x, y) THEN SpotValue
                                       ELSE Background
    <3>1. clean.data[i] = Byte(0 + V(i))
      BY <1>3, <2>5
    <3>2. V(i) \in 0 .. 255
      BY SpotAssumption
    <3>3. Byte(0 + V(i)) = V(i)
      <4> HIDE DEF V
      <4> QED
        BY <3>2 DEF Byte
    <3> QED
      BY <2>3, <3>1, <3>3
  <2>7. i \in DOMAIN clean.data
    BY <1>3, <2>5
  <2>8. PICK noise \in Noises : f.data[i] = Byte(V(i) + noise)
    BY <1>4, <2>6, <2>7
  <2>9. f.data[i] >= t <=> InSpot(m, x, y)
    <3>1. t \in Int /\ f.data[i] \in Int
      <4>1. f.data[i] \in Bytes
        BY <2>3
      <4> QED
        BY <4>1 DEF Bytes
    <3>2. CASE InSpot(m, x, y)
      BY <2>6, <2>8, <3>1, <3>2
    <3>3. CASE ~InSpot(m, x, y)
      BY <2>6, <2>8, <3>1, <3>3
    <3> QED
      BY <3>2, <3>3
  <2> QED
    BY <1>1, <2>3, <2>4, <2>9
<1>9. ASSUME NEW p \in Columns(f) \X Rows(f)
      PROVE  /\ Intensities(f)[p] \in {f.data[i] : i \in DOMAIN f.data}
             /\ Intensities(f)[p] >= t <=> InSpot(m, p[1], p[2])
  <2>1. p[1] \in Columns(f) /\ p[2] \in Rows(f)
    OBVIOUS
  <2>2. Intensities(f)[p] = IntensityAt(f, p[1], p[2])
    BY DEF Intensities
  <2> QED
    BY <1>8, <2>1, <2>2
<1> QED
  BY <1>2, <1>9

(* The tracker finds the disc, for every picture the camera draws, wherever *)
(* its middle, and every threshold that no noise crosses.                  *)
LEMMA SpotIsFound ==
  ASSUME NEW f \in Frames, IsFrameValid(f),
         threshold \in Bytes, minPixels \in Nat
  PROVE  FindsTheSpot(f, Estimate(f, threshold, minPixels))
<1> DEFINE e == Estimate(f, threshold, minPixels)
           D == Columns(f) \X Rows(f)
           px == Intensities(f)
           B == Bright(px, threshold)
           count == Cardinality(B)
           values == {f.data[i] : i \in DOMAIN f.data}
<1> SUFFICES ASSUME NEW m \in Middles(f.width, f.height), IsPictureOf(f, m),
                    \A noise \in Noises :
                      /\ Byte(Background + noise) < threshold
                      /\ threshold <= Byte(SpotValue + noise),
                    Lt(Zero, e.confidence)
             PROVE  /\ Near(e.cx, m[1]) /\ Near(e.cy, m[2])
                    /\ IsWhole(f, m) /\ Cardinality(values) = 2 =>
                         e.cx = <<m[1], 1>> /\ e.cy = <<m[2], 1>>
  BY DEF FindsTheSpot
<1>1. threshold \in Int /\ minPixels \in Nat
  BY DEF Bytes
<1>2. /\ D \in SUBSET (Nat \X Nat) /\ IsFiniteSet(D)
      /\ px \in [D -> Bytes] /\ DOMAIN px = D
  BY PlacesAreFinite, IntensitiesAreBytes
<1>3. /\ m \in Int \X Int
      /\ \A p \in D : /\ px[p] \in values
                      /\ px[p] >= threshold <=> InSpot(m, p[1], p[2])
  BY PictureBytes
<1> HIDE DEF D, px, values
<1>4. /\ B \in SUBSET D /\ IsFiniteSet(B)
      /\ count \in Nat /\ (count = 0 <=> B = {})
  BY <1>1, <1>2, WeightsAndMoments
<1>5. /\ \A p \in B : px[p] >= threshold /\ InSpot(m, p[1], p[2])
      /\ \A p \in D : InSpot(m, p[1], p[2]) => p \in B
  BY <1>2, <1>3 DEF Bright
<1>6. e = Centroid(px, threshold, minPixels)
  BY <1>1, EstimateType DEF px
<1>7. /\ B # {}
      /\ e.cx = Mean(px, threshold, 1) /\ e.cy = Mean(px, threshold, 2)
  <2> DEFINE conf == Confidence(count, minPixels)
  <2>1. e = IF count < minPixels THEN NothingSeen
            ELSE [cx |-> IF count = 0 THEN NaN ELSE Mean(px, threshold, 1),
                  cy |-> IF count = 0 THEN NaN ELSE Mean(px, threshold, 2),
                  confidence |-> conf]
    BY <1>6, CentroidIs
  <2> HIDE DEF e, B
  <2>2. ~(count < minPixels)
    <3>1. SUFFICES ASSUME count < minPixels PROVE FALSE
      OBVIOUS
    <3>2. e.confidence = Zero
      BY <2>1, <3>1 DEF NothingSeen
    <3>3. ~Lt(Zero, Zero)
      BY DEF Zero, Lt, Leq
    <3> QED
      BY <3>2, <3>3 DEF e
  <2>3. e.confidence = conf
    BY <2>1, <2>2
  <2>4. count > 1
    <3>1. Lt(Zero, conf)
      BY <2>3 DEF e
    <3> QED
      BY <1>1, <1>4, <3>1, ConfidenceIs
  <2>5. count # 0
    BY <2>4
  <2> QED
    BY <1>4, <2>1, <2>2, <2>5
<1> HIDE DEF e
<1>8. \A p \in B : p[1] \in Nat /\ p[2] \in Nat /\ p = <<p[1], p[2]>>
  <2> SUFFICES ASSUME NEW p \in B
               PROVE  p[1] \in Nat /\ p[2] \in Nat /\ p = <<p[1], p[2]>>
    OBVIOUS
  <2>1. p \in Nat \X Nat
    BY <1>2, <1>4
  <2> QED
    BY <2>1
<1>9. ASSUME NEW p \in B
      PROVE  /\ m[1] - Radius <= p[1] /\ p[1] <= m[1] + Radius
             /\ m[2] - Radius <= p[2] /\ p[2] <= m[2] + Radius
             /\ InSpot(m, 2 * m[1] - p[1], 2 * m[2] - p[2])
  <2>1. p[1] \in Int /\ p[2] \in Int /\ InSpot(m, p[1], p[2])
    BY <1>5, <1>8
  <2> QED
    BY <1>3, <2>1, InSpotWithin
<1>10. m[1] \in Int /\ m[2] \in Int
  BY <1>3
<1>11. Near(e.cx, m[1]) /\ Near(e.cy, m[2])
  <2>1. Near(Mean(px, threshold, 1), m[1])
    <3>1. \A p \in B : m[1] - Radius <= p[1] /\ p[1] <= m[1] + Radius
      BY <1>9
    <3>2. 1 \in 1 .. 2
      OBVIOUS
    <3> QED
      BY <1>1, <1>2, <1>7, <1>10, <3>1, <3>2, MeanIsNear
  <2>2. Near(Mean(px, threshold, 2), m[2])
    <3>1. \A p \in B : m[2] - Radius <= p[2] /\ p[2] <= m[2] + Radius
      BY <1>9
    <3>2. 2 \in 1 .. 2
      OBVIOUS
    <3> QED
      BY <1>1, <1>2, <1>7, <1>10, <3>1, <3>2, MeanIsNear
  <2> QED
    BY <1>7, <2>1, <2>2
<1>12. ASSUME IsWhole(f, m), Cardinality(values) = 2
       PROVE  e.cx = <<m[1], 1>> /\ e.cy = <<m[2], 1>>
  <2> DEFINE corner == <<m[1] - Radius, m[2] - Radius>>
  <2>1. /\ {m[1] - Radius, m[1] + Radius} \subseteq 0 .. f.width - 1
        /\ {m[2] - Radius, m[2] + Radius} \subseteq 0 .. f.height - 1
        /\ f.width \in Int /\ f.height \in Int
    BY <1>12, FrameTypes DEF IsWhole, Columns, Rows
  <2>2. corner \in D
    BY <1>12 DEF D, IsWhole
  <2>3. px[corner] \in values /\ ~(px[corner] >= threshold)
    <3>1. ~InSpot(m, corner[1], corner[2])
      BY <1>3, CornerOutside
    <3> QED
      BY <1>3, <2>2, <3>1
  <2>4. PICK b \in B : TRUE
    BY <1>7
  <2>5. IsFiniteSet(values)
    <3>1. f.data \in Seq(Bytes) /\ DOMAIN f.data = 1 .. Len(f.data)
      BY FrameTypes, LenProperties
    <3>2. \A i \in DOMAIN f.data : f.data[i] \in Bytes
      BY <3>1, ElementOfSeq
    <3>3. values \subseteq Bytes
      BY <3>2 DEF values
    <3>4. IsFiniteSet(Bytes)
      <4>1. 0 \in Int /\ 255 \in Int
        OBVIOUS
      <4> QED
        BY <4>1, FS_Interval, Zenon DEF Bytes
    <3> QED
      BY <3>3, <3>4, FS_Subset
  <2>6. \A p \in B : px[p] = px[b]
    <3> SUFFICES ASSUME NEW p \in B PROVE px[p] = px[b]
      OBVIOUS
    <3>1. /\ px[p] \in values /\ px[p] >= threshold
          /\ px[b] \in values /\ px[b] >= threshold
      BY <1>3, <1>4, <1>5
    <3>2. px[p] # px[corner] /\ px[b] # px[corner]
      BY <2>3, <3>1
    <3> QED
      BY <1>12, <2>3, <2>5, <3>1, <3>2, OneOfTwo
  <2>7. px[b] \in Nat /\ px[b] > 0
    <3>1. px[corner] \in Bytes /\ px[b] \in Bytes
      BY <1>2, <1>4, <2>2
    <3>2. px[corner] \in Nat /\ px[b] \in Nat
      BY <3>1 DEF Bytes
    <3> QED
      BY <1>1, <1>5, <2>3, <3>2
  <2>8. m \in Nat \X Nat
    <3>1. m[1] \in Nat /\ m[2] \in Nat
      BY <1>10, <2>1, RadiusType
    <3>2. m = <<m[1], m[2]>>
      BY <1>3
    <3> QED
      BY <3>1, <3>2
  <2>9. ASSUME NEW p \in B
        PROVE  <<2 * m[1] - p[1], 2 * m[2] - p[2]>> \in B
    <3> DEFINE x == 2 * m[1] - p[1]
               y == 2 * m[2] - p[2]
    <3>1. x \in Columns(f) /\ y \in Rows(f)
      <4>1. /\ m[1] - Radius <= x /\ x <= m[1] + Radius
            /\ m[2] - Radius <= y /\ y <= m[2] + Radius
            /\ x \in Int /\ y \in Int
        BY <1>8, <1>9, <1>10, RadiusType
      <4> HIDE DEF x, y
      <4> QED
        BY <1>10, <2>1, <4>1, RadiusType DEF Columns, Rows
    <3>2. InSpot(m, x, y)
      BY <1>9
    <3> HIDE DEF x, y
    <3>3. <<x, y>> \in D /\ InSpot(m, <<x, y>>[1], <<x, y>>[2])
      BY <3>1, <3>2 DEF D
    <3>4. <<x, y>> \in B
      BY <1>5, <3>3
    <3> QED
      BY <3>4 DEF x, y
  <2>10. B \in SUBSET (Nat \X Nat)
    BY <1>2, <1>4
  <2>11. ASSUME NEW axis \in 1 .. 2
         PROVE  Mean(px, threshold, axis) = <<m[axis], 1>>
    <3>1. Mean(px, threshold, axis) =
            Lowest(SumFunction([p \in B |-> p[axis]]), count)
      BY <1>1, <1>2, <1>7, <2>6, <2>7, EvenWeight
    <3> HIDE DEF B
    <3>2. Lowest(SumFunction([p \in B |-> p[axis]]), count) = <<m[axis], 1>>
      BY <1>4, <1>7, <2>8, <2>9, <2>10, MeanOfSymmetric
    <3> QED
      BY <3>1, <3>2
  <2> QED
    BY <1>7, <2>11
<1> QED
  BY <1>11, <1>12 DEF e

-----------------------------------------------------------------------------
(* Controller: one axis of the control law.                                *)

(* The error less the deadband, as integers.                               *)
Beyond(x, z) == IF AbsInt(x) <= z THEN 0 ELSE IF x >= 0 THEN x - z ELSE x + z

(* ApplyDeadband, computed with the numerators.                            *)
LEMMA IsApplyDeadband ==
  ASSUME NEW e, NEW x, NEW z, NEW m, Is(e, x, m), Is(Deadband, z, m)
  PROVE  /\ 0 <= z /\ z < m
         /\ Is(ApplyDeadband(e), Beyond(x, z), m - z)
<1>1. x \in Int /\ z \in Int /\ m \in Int /\ m > 0
  BY DEF Is
<1>2. Is(Zero, 0, m) /\ Is(One, m, m)
  BY <1>1, IsZeroOrOne
<1>3. 0 <= z /\ z < m
  <2>1. 0 <= z
    BY <1>2, LeqIs, ControllerAssumption
  <2>2. ~(m <= z)
    BY <1>2, LeqIs, ControllerAssumption DEF Lt
  <2> QED
    BY <1>1, <2>1, <2>2
<1>4. Is(Abs(e), AbsInt(x), m)
  BY IsAbs
<1>5. Leq(Abs(e), Deadband) <=> AbsInt(x) <= z
  BY <1>4, LeqIs
<1> DEFINE over == Minus(Abs(e), Deadband)
           one == Minus(One, Deadband)
           rest == Over(over, one)
<1>6. Is(over, AbsInt(x) - z, m) /\ Is(one, m - z, m)
  BY <1>2, <1>4, IsMinus
<1>7. m - z > 0
  BY <1>1, <1>3
<1> HIDE DEF over, one
<1>8. Is(rest, AbsInt(x) - z, m - z)
  BY <1>6, <1>7, IsOver
<1>9. Is(Neg(rest), -(AbsInt(x) - z), m - z)
  BY <1>8, IsNeg
<1>10. e[1] >= 0 <=> x >= 0
  <2>1. /\ e[1] \in Int /\ e[2] \in Int /\ e[2] > 0 /\ e[1] * m = x * e[2]
    BY DEF Is, Fraction
  <2>2. e[1] >= 0 <=> e[1] * m >= 0
    BY <1>1, <2>1
  <2>3. x >= 0 <=> x * e[2] >= 0
    BY <1>1, <2>1
  <2> QED
    BY <2>1, <2>2, <2>3
<1>11. ApplyDeadband(e) = IF Leq(Abs(e), Deadband) THEN Zero
                          ELSE IF e[1] >= 0 THEN rest ELSE Neg(rest)
  BY DEF ApplyDeadband, rest, over, one
<1> HIDE DEF rest
<1>12. Is(Zero, 0, m - z)
  BY <1>1, <1>7, IsZeroOrOne
<1>13. Is(ApplyDeadband(e), Beyond(x, z), m - z)
  <2>1. CASE AbsInt(x) <= z
    BY <1>5, <1>11, <1>12, <2>1 DEF Beyond
  <2>2. CASE ~(AbsInt(x) <= z) /\ x >= 0
    <3>1. AbsInt(x) - z = x - z
      BY <1>1, <2>2 DEF AbsInt
    <3> QED
      BY <1>5, <1>8, <1>10, <1>11, <2>2, <3>1 DEF Beyond
  <2>3. CASE ~(AbsInt(x) <= z) /\ ~(x >= 0)
    <3>1. -(AbsInt(x) - z) = x + z
      BY <1>1, <2>3 DEF AbsInt
    <3> QED
      BY <1>5, <1>9, <1>10, <1>11, <2>3, <3>1 DEF Beyond
  <2> QED
    BY <2>1, <2>2, <2>3
<1> QED
  BY <1>3, <1>13

(* A step of the integers: cutting out the deadband neither turns them     *)
(* round nor moves two of them apart.                                      *)
LEMMA BeyondFollows ==
  ASSUME NEW x \in Int, NEW y \in Int, NEW z \in Int, 0 <= z
  PROVE  /\ Beyond(x, z) \in Int
         /\ x <= y => Beyond(x, z) <= Beyond(y, z)
         /\ AbsInt(Beyond(y, z) - Beyond(x, z)) <= AbsInt(y - x)
BY DEF Beyond, AbsInt

(* One axis of the control law with all fractions over one denominator:    *)
(* the errors x and y and the deadband z are over m, the gain is g / h and *)
(* the limit l / n.                                                        *)
LEMMA LawFollows ==
  ASSUME NEW e, NEW x, NEW d, NEW y, NEW z, NEW m,
         Is(e, x, m), Is(d, y, m), Is(Deadband, z, m),
         NEW gain \in Fraction, Leq(Zero, gain),
         NEW limit \in Fraction, Leq(Zero, limit)
  PROVE  LET p == Clamp(Times(gain, ApplyDeadband(e)), Neg(limit), limit)
             q == Clamp(Times(gain, ApplyDeadband(d)), Neg(limit), limit)
         IN /\ p \in Fraction
            /\ Leq(Abs(p), limit)
            /\ Leq(e, d) => Leq(p, q)
            /\ Leq(Times(Abs(Minus(q, p)), Minus(One, Deadband)),
                   Times(gain, Abs(Minus(d, e))))
<1> DEFINE p == Clamp(Times(gain, ApplyDeadband(e)), Neg(limit), limit)
           q == Clamp(Times(gain, ApplyDeadband(d)), Neg(limit), limit)
           g == gain[1]
           h == gain[2]
           l == limit[1]
           n == limit[2]
           u == Beyond(x, z)
           v == Beyond(y, z)
           r == m - z
           hr == h * r
           M == hr * n
           k == g * n
           L == l * hr
           P == ClampInt(k * u, -L, L)
           Q == ClampInt(k * v, -L, L)
<1>1. /\ x \in Int /\ y \in Int /\ z \in Int /\ m \in Int /\ m > 0
      /\ g \in Int /\ h \in Int /\ h > 0 /\ l \in Int /\ n \in Int /\ n > 0
  BY DEF Is, Fraction
<1>2. Is(gain, g, h) /\ Is(limit, l, n)
  BY IsItself
<1>3. g >= 0 /\ l >= 0
  <2>1. Is(Zero, 0, h) /\ Is(Zero, 0, n)
    BY <1>1, IsZeroOrOne
  <2> HIDE DEF g, h, l, n
  <2> QED
    BY <1>2, <2>1, LeqIs
<1>4. /\ Is(ApplyDeadband(e), u, r) /\ Is(ApplyDeadband(d), v, r)
      /\ z >= 0 /\ r \in Int /\ r > 0
  BY <1>1, IsApplyDeadband
<1>5. u \in Int /\ v \in Int
  BY <1>1, <1>4, BeyondFollows
<1> HIDE DEF g, h, l, n, u, v, r
<1>6. hr \in Int /\ hr > 0 /\ M \in Int /\ M > 0 /\ k \in Int /\ k >= 0
      /\ L \in Int /\ L >= 0 /\ k * u \in Int /\ k * v \in Int
  <2>1. hr \in Int /\ hr > 0 /\ k \in Int /\ k >= 0
    BY <1>1, <1>3, <1>4, IntProducts
  <2> HIDE DEF hr, k
  <2> QED
    BY <1>1, <1>3, <1>5, <2>1, IntProducts
<1>7. Is(Times(gain, ApplyDeadband(e)), k * u, M)
  <2>1. Is(Times(gain, ApplyDeadband(e)), g * u, hr)
    BY <1>2, <1>4, IsTimes
  <2>2. Is(Times(gain, ApplyDeadband(e)), (g * u) * n, M)
    BY <1>1, <2>1, IsScaled
  <2>3. (g * u) * n = k * u
    BY <1>1, <1>5
  <2> QED
    BY <2>2, <2>3
<1>8. Is(Times(gain, ApplyDeadband(d)), k * v, M)
  <2>1. Is(Times(gain, ApplyDeadband(d)), g * v, hr)
    BY <1>2, <1>4, IsTimes
  <2>2. Is(Times(gain, ApplyDeadband(d)), (g * v) * n, M)
    BY <1>1, <2>1, IsScaled
  <2>3. (g * v) * n = k * v
    BY <1>1, <1>5
  <2> QED
    BY <2>2, <2>3
<1>9. Is(limit, L, M) /\ Is(Neg(limit), -L, M)
  <2>1. Is(limit, l * hr, n * hr)
    <3> HIDE DEF hr
    <3> QED
      BY <1>2, <1>6, IsScaled
  <2>2. n * hr = M
    BY <1>1, <1>6
  <2>3. Is(limit, L, M)
    BY <2>1, <2>2
  <2> QED
    BY <2>3, IsNeg
<1> HIDE DEF M, k, L
<1>10. Is(p, P, M) /\ Is(q, Q, M)
  BY <1>7, <1>8, <1>9, IsClamp
<1>11. /\ P \in Int /\ Q \in Int
       /\ AbsInt(P) <= L
       /\ k * u <= k * v => P <= Q
       /\ AbsInt(Q - P) <= AbsInt(k * v - k * u)
  BY <1>6, ClampFollows
<1> HIDE DEF p, q, P, Q
<1>12. p \in Fraction
  BY <1>10 DEF Is
<1>13. Leq(Abs(p), limit)
  BY <1>9, <1>10, <1>11, IsAbs, LeqIs
<1>14. ASSUME Leq(e, d) PROVE Leq(p, q)
  <2>1. x <= y
    BY <1>14, LeqIs
  <2>2. u <= v
    BY <1>1, <1>4, <2>1, BeyondFollows DEF u, v
  <2>3. k * u <= k * v
    BY <1>5, <1>6, <2>2, Scaled
  <2> QED
    BY <1>10, <1>11, <2>3, LeqIs
<1>15. AbsInt(Q - P) <= k * AbsInt(y - x)
  <2>1. AbsInt(v - u) <= AbsInt(y - x)
    BY <1>1, <1>4, BeyondFollows DEF u, v
  <2>2. k * v - k * u = k * (v - u)
    BY <1>5, <1>6
  <2>3. AbsInt(k * (v - u)) = k * AbsInt(v - u)
    BY <1>5, <1>6, AbsScaled
  <2>4. AbsInt(v - u) \in Int /\ AbsInt(y - x) \in Int
    BY <1>1, <1>5 DEF AbsInt
  <2>5. k * AbsInt(v - u) <= k * AbsInt(y - x)
    BY <1>6, <2>1, <2>4, Scaled
  <2>6. AbsInt(Q - P) \in Int /\ k * AbsInt(y - x) \in Int
        /\ k * AbsInt(v - u) \in Int
    BY <1>6, <1>11, <2>4 DEF AbsInt
  <2> QED
    BY <1>11, <2>2, <2>3, <2>5, <2>6
<1> DEFINE A == AbsInt(Q - P)
           B == AbsInt(y - x)
<1>16. A \in Int /\ B \in Int
  BY <1>1, <1>11 DEF AbsInt
<1>17. Is(Abs(Minus(q, p)), A, M)
  BY <1>10, IsMinus, IsAbs
<1>18. Is(Abs(Minus(d, e)), B, m)
  BY IsMinus, IsAbs
<1>19. Is(Minus(One, Deadband), r, m)
  BY <1>1, IsMinus, IsZeroOrOne DEF r
<1>20. Is(Times(Abs(Minus(q, p)), Minus(One, Deadband)), A * r, M * m)
  BY <1>17, <1>19, IsTimes
<1>21. Is(Times(gain, Abs(Minus(d, e))), (g * B) * (r * n), M * m)
  <2>1. Is(Times(gain, Abs(Minus(d, e))), g * B, h * m)
    BY <1>2, <1>18, IsTimes
  <2>2. r * n \in Int /\ r * n > 0
    BY <1>1, <1>4, IntProducts
  <2>3. Is(Times(gain, Abs(Minus(d, e))), (g * B) * (r * n), (h * m) * (r * n))
    BY <2>1, <2>2, IsScaled
  <2>4. (h * m) * (r * n) = M * m
    BY <1>1, <1>4 DEF M
  <2> QED
    BY <2>3, <2>4
<1>22. A * r <= (g * B) * (r * n)
  <2>1. (g * B) * (r * n) = r * (k * B) /\ A * r = r * A /\ k * B \in Int
    BY <1>1, <1>4, <1>16 DEF k
  <2>2. r * A <= r * (k * B)
    BY <1>4, <1>15, <1>16, <2>1, Scaled
  <2> QED
    BY <2>1, <2>2
<1>23. Leq(Times(Abs(Minus(q, p)), Minus(One, Deadband)),
           Times(gain, Abs(Minus(d, e))))
  <2> HIDE DEF A, B
  <2> QED
    BY <1>20, <1>21, <1>22, LeqIs
<1> QED
  BY <1>12, <1>13, <1>14, <1>23 DEF p, q

(* The error of a coordinate.                                              *)
LEMMA ErrorIs ==
  ASSUME NEW a \in Fraction, NEW b \in Fraction, NEW size \in Int, size > 0
  PROVE  /\ Error(a, size) \in Fraction /\ Error(b, size) \in Fraction
         /\ Leq(a, b) => Leq(Error(a, size), Error(b, size))
<1> DEFINE s == <<size, 2>>
<1>1. s \in Fraction
  BY DEF Fraction
<1>2. PICK x \in Int, y \in Int, z \in Int, m \in Int :
        Is(a, x, m) /\ Is(b, y, m) /\ Is(s, z, m)
  <2> HIDE DEF s
  <2> QED
    BY <1>1, CommonDenominator
<1>3. z > 0
  <2>1. m > 0 /\ size * m = z * 2
    BY <1>2 DEF Is
  <2>2. size * m > 0
    BY <2>1
  <2> QED
    BY <2>1, <2>2
<1> HIDE DEF s
<1>4. Is(Minus(a, s), x - z, m) /\ Is(Minus(b, s), y - z, m)
  BY <1>2, IsMinus
<1>5. Is(Over(Minus(a, s), s), x - z, z) /\ Is(Over(Minus(b, s), s), y - z, z)
  BY <1>2, <1>3, <1>4, IsOver
<1>6. Is(Error(a, size), x - z, z) /\ Is(Error(b, size), y - z, z)
  BY <1>5 DEF Error, s
<1>7. Leq(a, b) <=> x <= y
  BY <1>2, LeqIs
<1>8. Leq(Error(a, size), Error(b, size)) <=> x - z <= y - z
  BY <1>6, LeqIs
<1> QED
  BY <1>6, <1>7, <1>8 DEF Is

(* One axis of the controller.                                             *)
LEMMA SteeredFollows ==
  ASSUME NEW a \in Fraction, NEW b \in Fraction, NEW size \in Int, size > 0,
         NEW gain \in Fraction, Leq(Zero, gain),
         NEW limit \in Fraction, Leq(Zero, limit)
  PROVE  LET p == Steered(a, size, gain, limit)
             q == Steered(b, size, gain, limit)
         IN /\ p \in Fraction
            /\ Leq(Abs(p), limit)
            /\ Leq(a, b) => Leq(p, q)
            /\ Leq(Times(Abs(Minus(q, p)), Minus(One, Deadband)),
                   Times(gain, Abs(Minus(Error(b, size), Error(a, size)))))
<1>1. a # <<0, 0>> /\ b # <<0, 0>>
  BY DEF Fraction
<1> DEFINE e == Error(a, size)
           d == Error(b, size)
<1>2. e \in Fraction /\ d \in Fraction /\ (Leq(a, b) => Leq(e, d))
  BY ErrorIs
<1> HIDE DEF e, d
<1>3. PICK x \in Int, y \in Int, z \in Int, m \in Int :
        Is(e, x, m) /\ Is(d, y, m) /\ Is(Deadband, z, m)
  BY <1>2, CommonDenominator, ControllerAssumption
<1> DEFINE p == Clamp(Times(gain, ApplyDeadband(e)), Neg(limit), limit)
           q == Clamp(Times(gain, ApplyDeadband(d)), Neg(limit), limit)
<1>4. /\ p \in Fraction
      /\ Leq(Abs(p), limit)
      /\ Leq(e, d) => Leq(p, q)
      /\ Leq(Times(Abs(Minus(q, p)), Minus(One, Deadband)),
             Times(gain, Abs(Minus(d, e))))
  BY <1>3, LawFollows
<1>5. p = Steered(a, size, gain, limit) /\ q = Steered(b, size, gain, limit)
  BY <1>1 DEF Steered, e, d
<1> HIDE DEF p, q
<1> QED
  BY <1>2, <1>4, <1>5 DEF e, d

-----------------------------------------------------------------------------
(* Kinematics3RRS: one leg.                                                *)

(* Angles are half degrees, from half a turn below zero to just under half *)
(* a turn above.                                                           *)
LEMMA Angles == Angle = -360 .. 359
BY DEF Angle, Turn

(* wrapAngle() yields an angle of one turn.                                *)
LEMMA Wrapped == \A q \in Int : WrapAngle(q) \in Angle
BY Angles DEF WrapAngle, Turn

(* The mechanism angle is one of the two solutions.                        *)
LEMMA AngleSolves ==
  ASSUME NEW a \in Int, NEW b \in Int, NEW prev \in Angle
  PROVE  MechanismAngle(<<a, b>>, prev) \in {WrapAngle(a), WrapAngle(b)}
BY DEF MechanismAngle, ChooseClosest, OtherBranch

(* It points outward if one of them does, and then no other that does is   *)
(* nearer.                                                                 *)
LEMMA AngleOutward ==
  ASSUME NEW a \in Int, NEW b \in Int, NEW prev \in Angle,
         NEW q \in {WrapAngle(a), WrapAngle(b)}, ~Inward(q)
  PROVE  /\ ~Inward(MechanismAngle(<<a, b>>, prev))
         /\ Distance(MechanismAngle(<<a, b>>, prev), prev) <= Distance(q, prev)
<1>1. /\ WrapAngle(a) \in Int /\ WrapAngle(b) \in Int /\ prev \in Int
  <2>1. WrapAngle(a) \in Angle /\ WrapAngle(b) \in Angle
    BY Wrapped
  <2>2. \A angle \in Angle : angle \in Int
    BY Angles
  <2> QED
    BY <2>1, <2>2
<1> DEFINE wa == WrapAngle(a)
           wb == WrapAngle(b)
           m == MechanismAngle(<<a, b>>, prev)
<1>2. m = LET near == IF Distance(wa, prev) <= Distance(wb, prev) THEN wa ELSE wb
          IN IF Inward(near)
             THEN IF Distance(near, wa) < Distance(near, wb) THEN wb ELSE wa
             ELSE near
  BY DEF MechanismAngle, ChooseClosest, OtherBranch
<1>3. wa \in Int /\ wb \in Int /\ q \in {wa, wb} /\ ~Inward(q)
  BY <1>1
<1> HIDE DEF wa, wb, m
<1>4. ~Inward(m) /\ Distance(m, prev) <= Distance(q, prev)
  BY <1>1, <1>2, <1>3 DEF Distance
<1> QED
  BY <1>4 DEF m

(* A servo is never told an angle outside 0..180.                          *)
LEMMA DegreesInRange ==
  ASSUME NEW leg \in Legs, NEW q \in Angle
  PROVE  ServoDegrees(leg, q) \in 0 .. 180
<1> DEFINE deg2 == 2 * ServoNeutral[leg] + ServoDir[leg] * q
           cut == IF deg2 < 0 THEN 0 ELSE IF deg2 > 360 THEN 360 ELSE deg2
<1>1. deg2 \in Int
  <2>1. ServoNeutral[leg] \in Int /\ ServoDir[leg] \in {-1, 1} /\ q \in Int
    BY KinematicsAssumption, Angles
  <2>2. CASE ServoDir[leg] = 1
    BY <2>1, <2>2
  <2>3. CASE ServoDir[leg] = -1
    BY <2>1, <2>3
  <2> QED
    BY <2>1, <2>2, <2>3
<1>2. cut \in 0 .. 360
  <2> HIDE DEF deg2
  <2> QED
    BY <1>1
<1>3. (cut + 1) \div 2 \in 0 .. 180
  <2> HIDE DEF cut
  <2> QED
    BY <1>2
<1> QED
  BY <1>3 DEF ServoDegrees

(* What a pose makes of a leg, solved or not.                              *)
LEMMA LegSolved ==
  ASSUME NEW p \in Poses, NEW leg \in Legs, NEW prev \in Angle,
         p # Unsolvable
  PROVE  /\ p[1] \in Int /\ p[2] \in Int /\ p = <<p[1], p[2]>>
         /\ MechanismAngle(p, prev) \in Angle
         /\ MechanismAngle(p, prev) \in {WrapAngle(p[1]), WrapAngle(p[2])}
<1>1. p[1] \in Int /\ p[2] \in Int /\ p = <<p[1], p[2]>>
  BY PosesAssumption
<1>2. MechanismAngle(p, prev) \in {WrapAngle(p[1]), WrapAngle(p[2])}
  BY <1>1, AngleSolves
<1>3. WrapAngle(p[1]) \in Angle /\ WrapAngle(p[2]) \in Angle
  BY <1>1, Wrapped
<1> QED
  BY <1>1, <1>2, <1>3

(* A command tells the truth, and leaves angles and targets in range.      *)
LEMMA SolveKeeps ==
  ASSUME KinematicsTypeOK, NEW legPoses \in [Legs -> Poses],
         Solve(legPoses), geometryValid, pose' = legPoses
  PROVE  KinematicsTypeOK' /\ OkSolvesEveryLeg'
<1> DEFINE solved == {leg \in Legs : legPoses[leg] # Unsolvable}
<1>1. /\ geometryValid' = geometryValid
      /\ qPrev' = [leg \in Legs |->
                     IF leg \in solved
                     THEN MechanismAngle(legPoses[leg], qPrev[leg])
                     ELSE qPrev[leg]]
      /\ lastValid' = [leg \in Legs |->
                         IF leg \in solved THEN ServoDegrees(leg, qPrev'[leg])
                         ELSE lastValid[leg]]
      /\ cmd' = [status |-> Status(solved), targets |-> lastValid']
  BY DEF Solve
<1>2. /\ qPrev \in [Legs -> Angle] /\ lastValid \in [Legs -> 0 .. 180]
      /\ geometryValid \in BOOLEAN
  BY DEF KinematicsTypeOK
<1>3. ASSUME NEW leg \in solved
      PROVE  /\ leg \in Legs
             /\ legPoses[leg] \in Poses /\ legPoses[leg] # Unsolvable
             /\ qPrev'[leg] \in Angle
             /\ qPrev'[leg] \in {WrapAngle(legPoses[leg][1]),
                                WrapAngle(legPoses[leg][2])}
             /\ lastValid'[leg] = ServoDegrees(leg, qPrev'[leg])
             /\ lastValid'[leg] \in 0 .. 180
  <2>1. leg \in Legs /\ legPoses[leg] \in Poses /\ legPoses[leg] # Unsolvable
    OBVIOUS
  <2>2. qPrev'[leg] = MechanismAngle(legPoses[leg], qPrev[leg])
    BY <1>1, <2>1
  <2>3. /\ qPrev'[leg] \in Angle
        /\ qPrev'[leg] \in {WrapAngle(legPoses[leg][1]),
                           WrapAngle(legPoses[leg][2])}
    BY <1>2, <2>1, <2>2, LegSolved
  <2>4. lastValid'[leg] = ServoDegrees(leg, qPrev'[leg])
    BY <1>1, <2>1
  <2> QED
    BY <2>1, <2>3, <2>4, DegreesInRange
<1>4. ASSUME NEW leg \in Legs
      PROVE  qPrev'[leg] \in Angle /\ lastValid'[leg] \in 0 .. 180
  <2>1. CASE leg \in solved
    BY <2>1, <1>3
  <2>2. CASE leg \notin solved
    BY <2>2, <1>1, <1>2
  <2> QED
    BY <2>1, <2>2
<1>5. qPrev' \in [Legs -> Angle] /\ lastValid' \in [Legs -> 0 .. 180]
  BY <1>1, <1>4
<1>6. cmd'.status = Status(solved) /\ cmd'.targets = lastValid'
  BY <1>1
<1>7. KinematicsTypeOK'
  BY <1>1, <1>2, <1>5, <1>6 DEF KinematicsTypeOK, Status
<1>8. OkSolvesEveryLeg'
  <2> SUFFICES ASSUME cmd'.status = "Ok", NEW leg \in Legs
               PROVE  \E branch \in 1 .. 2 :
                        /\ legPoses[leg] # Unsolvable
                        /\ cmd'.targets[leg] =
                             ServoDegrees(leg, WrapAngle(legPoses[leg][branch]))
    BY <1>1 DEF OkSolvesEveryLeg
  <2>1. leg \in solved
    BY <1>6 DEF Status
  <2>2. CASE qPrev'[leg] = WrapAngle(legPoses[leg][1])
    BY <2>1, <2>2, <1>3, <1>6
  <2>3. CASE qPrev'[leg] = WrapAngle(legPoses[leg][2])
    BY <2>1, <2>3, <1>3, <1>6
  <2> QED
    BY <2>1, <2>2, <2>3, <1>3
<1> QED
  BY <1>7, <1>8

-----------------------------------------------------------------------------
(* The invariant: what the kinematics keep, and where what the control     *)
(* thread has in hand came from.                                           *)
InHand ==
  /\ stage \in {"idle", "estimated", "steered"}
  /\ threshold \in Thresholds /\ minPixels \in MinPixels
  /\ stage # "idle" => est \in Estimates
  /\ stage = "steered" => sp = Setpoint(est)

IInv == KinematicsTypeOK /\ OkSolvesEveryLeg /\ InHand

(* Threshold and least count are numbers.                                  *)
LEMMA Settings ==
  ASSUME InHand
  PROVE  threshold \in Bytes /\ threshold \in Int /\ minPixels \in Nat
BY FramesAssumption DEF InHand, Bytes

(* At first nothing is in hand and no command was given.                   *)
LEMMA InitIInv == Init => IInv
<1> SUFFICES ASSUME Init PROVE IInv
  OBVIOUS
<1>1. KinematicsTypeOK
  <2>1. [leg \in Legs |-> 0] \in [Legs -> Angle]
    BY Angles
  <2> QED
    BY <2>1, KinematicsAssumption DEF Init, KinematicsInit, KinematicsTypeOK
<1>2. OkSolvesEveryLeg
  BY DEF Init, OkSolvesEveryLeg
<1>3. InHand
  BY DEF Init, InHand
<1> QED
  BY <1>1, <1>2, <1>3 DEF IInv

(* Every step hands on what it made of what it had.                        *)
LEMMA StepIInv == IInv /\ [Next]_vars => IInv'
<1> SUFFICES ASSUME IInv, [Next]_vars PROVE IInv'
  OBVIOUS
<1> USE DEF IInv
<1>1. ASSUME NEW t \in Thresholds, SetThreshold(t) PROVE IInv'
  <2>1. KinematicsTypeOK' /\ OkSolvesEveryLeg'
    BY <1>1 DEF SetThreshold, kinematicsVars, KinematicsTypeOK,
                OkSolvesEveryLeg
  <2>2. InHand'
    BY <1>1 DEF SetThreshold, InHand
  <2> QED
    BY <2>1, <2>2
<1>2. ASSUME NEW f \in Frames, OnFrame(f) PROVE IInv'
  <2>1. KinematicsTypeOK' /\ OkSolvesEveryLeg'
    BY <1>2 DEF OnFrame, kinematicsVars, KinematicsTypeOK, OkSolvesEveryLeg
  <2>2. est' \in Estimates
    <3>1. IsFrameValid(f) /\ est' = Estimate(f, threshold, minPixels)
      BY <1>2 DEF OnFrame
    <3> QED
      BY <3>1, Settings, EstimateType
  <2>3. InHand'
    BY <1>2, <2>2 DEF OnFrame, InHand
  <2> QED
    BY <2>1, <2>3
<1>3. CASE OnEstimate
  <2>1. KinematicsTypeOK' /\ OkSolvesEveryLeg'
    BY <1>3 DEF OnEstimate, kinematicsVars, KinematicsTypeOK, OkSolvesEveryLeg
  <2>2. InHand'
    BY <1>3 DEF OnEstimate, InHand
  <2> QED
    BY <2>1, <2>2
<1>4. ASSUME NEW legPoses \in [Legs -> Poses], OnSetpoint(legPoses)
      PROVE  IInv'
  <2>1. KinematicsTypeOK' /\ OkSolvesEveryLeg'
    <3>1. CASE geometryValid
      BY <1>4, <3>1, SolveKeeps DEF OnSetpoint, ComputeIK
    <3>2. CASE ~geometryValid
      <4>1. RefuseGeometry
        BY <1>4, <3>2 DEF OnSetpoint, ComputeIK
      <4> QED
        BY <4>1 DEF RefuseGeometry, KinematicsTypeOK, OkSolvesEveryLeg
    <3> QED
      BY <3>1, <3>2
  <2>2. InHand'
    BY <1>4 DEF OnSetpoint, InHand
  <2> QED
    BY <2>1, <2>2
<1>5. CASE UNCHANGED vars
  <2>1. KinematicsTypeOK' /\ OkSolvesEveryLeg'
    BY <1>5 DEF vars, kinematicsVars, KinematicsTypeOK, OkSolvesEveryLeg
  <2>2. InHand'
    BY <1>5 DEF vars, InHand
  <2> QED
    BY <2>1, <2>2
<1> QED
  BY <1>1, <1>2, <1>3, <1>4, <1>5 DEF Next

-----------------------------------------------------------------------------
(* Confidence enough to steer by comes with a centroid.                    *)
LEMMA SteersByNumbers ==
  ASSUME NEW e \in Estimates, ~Lt(e.confidence, MinConfidence)
  PROVE  e.cx \in Fraction /\ e.cy \in Fraction
<1>1. e.confidence \in Fraction /\ MinConfidence \in Fraction
      /\ Zero \in Fraction
  BY ControllerAssumption DEF Estimates, Zero, Fraction
<1>2. PICK x \in Int, y \in Int, z \in Int, m \in Int :
        Is(e.confidence, x, m) /\ Is(MinConfidence, y, m) /\ Is(Zero, z, m)
  BY <1>1, CommonDenominator
<1>3. y <= x
  BY <1>2, LeqIs DEF Lt
<1>4. ~(y <= z)
  BY <1>2, LeqIs, ControllerAssumption DEF Lt
<1>5. ~(x <= z)
  BY <1>3, <1>4
<1>6. Lt(Zero, e.confidence)
  BY <1>2, <1>5, LeqIs DEF Lt
<1> QED
  BY <1>6 DEF Estimates

(* A platform that stays level follows any centroid.                       *)
LEMMA LevelFollows ==
  ASSUME NEW size \in Int, NEW c \in Coordinates(size), NEW at \in Fraction,
         NEW gain \in Fraction, Leq(Zero, gain)
  PROVE  /\ Leq(Zero, Zero)
         /\ Leq(Times(Abs(Minus(Zero, Zero)), Minus(One, Deadband)),
                Times(gain, Abs(Minus(Error(c, size), Error(at, size)))))
<1>1. c \in Fraction /\ size > 0
  BY DEF Coordinates, Fraction
<1>2. Error(c, size) \in Fraction /\ Error(at, size) \in Fraction
  BY <1>1, ErrorIs
<1>3. PICK x \in Int, y \in Int, z \in Int, m \in Int :
        /\ Is(Error(c, size), x, m) /\ Is(Error(at, size), y, m)
        /\ Is(Deadband, z, m)
  BY <1>2, CommonDenominator, ControllerAssumption
<1> DEFINE g == gain[1]
           h == gain[2]
           d == AbsInt(x - y)
           M == h * m
<1>4. /\ Is(gain, g, h) /\ g \in Int /\ h \in Int /\ h > 0
      /\ m \in Int /\ m > 0
  BY <1>3, IsItself DEF Fraction, Is
<1>5. g >= 0
  <2> HIDE DEF g, h
  <2>1. Is(Zero, 0, h)
    BY <1>4, IsZeroOrOne
  <2> QED
    BY <1>4, <2>1, LeqIs
<1> HIDE DEF g, h
<1>6. Is(Zero, 0, m) /\ Is(One, m, m) /\ Is(Zero, 0, h)
  BY <1>4, IsZeroOrOne
<1>7. Is(Times(gain, Abs(Minus(Error(c, size), Error(at, size)))), g * d, M)
  BY <1>3, <1>4, IsMinus, IsAbs, IsTimes
<1>8. Is(Times(Abs(Minus(Zero, Zero)), Minus(One, Deadband)), 0, M)
  <2>1. Is(Abs(Minus(Zero, Zero)), 0, h)
    <3>1. Is(Minus(Zero, Zero), 0 - 0, h)
      BY <1>6, IsMinus
    <3>2. Is(Abs(Minus(Zero, Zero)), AbsInt(0 - 0), h)
      BY <3>1, IsAbs
    <3>3. AbsInt(0 - 0) = 0
      BY DEF AbsInt
    <3> QED
      BY <3>2, <3>3
  <2>2. Is(Minus(One, Deadband), m - z, m)
    BY <1>3, <1>6, IsMinus
  <2>3. Is(Times(Abs(Minus(Zero, Zero)), Minus(One, Deadband)),
           0 * (m - z), h * m)
    BY <2>1, <2>2, IsTimes
  <2>4. 0 * (m - z) = 0
    BY <1>4
  <2> QED
    BY <2>3, <2>4
<1>9. 0 <= g * d
  <2>1. d \in Int /\ d >= 0
    BY <1>3 DEF AbsInt
  <2> HIDE DEF d
  <2> QED
    BY <1>4, <1>5, <2>1, IntProducts
<1>10. Leq(Zero, Zero)
  BY DEF Leq, Zero
<1> HIDE DEF M, d
<1> QED
  BY <1>7, <1>8, <1>9, <1>10, LeqIs

(* The setpoint in hand is steady and within its limits.                   *)
LEMMA InHandFollows == IInv => SetpointFollows
<1> SUFFICES ASSUME IInv, stage = "steered"
             PROVE  /\ Leq(Abs(sp.pan), MaxPan)
                    /\ Leq(Abs(sp.tilt), MaxTilt)
                    /\ ~Lt(est.confidence, MinConfidence) =>
                         /\ Follows(LAMBDA c : Setpoint([est EXCEPT !.cx = c]).pan,
                                    sp.pan, est.cx, Width, KPan)
                         /\ Follows(LAMBDA c : Setpoint([est EXCEPT !.cy = c]).tilt,
                                    sp.tilt, est.cy, Height, KTilt)
  BY DEF SetpointFollows
<1>1. est \in Estimates /\ sp = Setpoint(est)
  BY DEF IInv, InHand
<1>2. CASE Lt(est.confidence, MinConfidence)
  <2>1. sp.pan = Zero /\ sp.tilt = Zero
    BY <1>1, <1>2 DEF Setpoint, Level
  <2>2. Abs(Zero) = Zero
    BY DEF Abs, Zero
  <2>3. Leq(Zero, MaxPan) /\ Leq(Zero, MaxTilt)
    BY ControllerAssumption
  <2> QED
    BY <1>2, <2>1, <2>2, <2>3
<1>3. CASE ~Lt(est.confidence, MinConfidence)
  <2> DEFINE pan(c) == Setpoint([est EXCEPT !.cx = c]).pan
             tilt(c) == Setpoint([est EXCEPT !.cy = c]).tilt
  <2>1. est.cx \in Fraction /\ est.cy \in Fraction
    BY <1>1, <1>3, SteersByNumbers
  <2>2. /\ Width \in Int /\ Height \in Int
        /\ KPan \in Fraction /\ KTilt \in Fraction
        /\ MaxPan \in Fraction /\ MaxTilt \in Fraction
        /\ Leq(Zero, KPan) /\ Leq(Zero, KTilt)
        /\ Leq(Zero, MaxPan) /\ Leq(Zero, MaxTilt)
    BY ControllerAssumption
  <2>3. \A c : /\ [est EXCEPT !.cx = c].confidence = est.confidence
               /\ [est EXCEPT !.cx = c].cx = c
               /\ [est EXCEPT !.cy = c].confidence = est.confidence
               /\ [est EXCEPT !.cy = c].cy = c
    BY <1>1 DEF Estimates
  <2>4. CASE Width <= 0 \/ Height <= 0
    <3>1. sp = Level /\ \A c : pan(c) = Zero /\ tilt(c) = Zero
      BY <1>1, <2>4 DEF Setpoint, Level
    <3>2. sp.pan = Zero /\ sp.tilt = Zero
      BY <3>1 DEF Level
    <3>3. Abs(Zero) = Zero
      BY DEF Abs, Zero
    <3> HIDE DEF pan, tilt
    <3>4. ASSUME NEW c \in Coordinates(Width)
          PROVE  /\ Leq(sp.pan, pan(c))
                 /\ Leq(Times(Abs(Minus(pan(c), sp.pan)), Minus(One, Deadband)),
                        Times(KPan, Abs(Minus(Error(c, Width),
                                              Error(est.cx, Width)))))
      BY <2>1, <2>2, <3>1, <3>2, LevelFollows
    <3>5. ASSUME NEW c \in Coordinates(Height)
          PROVE  /\ Leq(sp.tilt, tilt(c))
                 /\ Leq(Times(Abs(Minus(tilt(c), sp.tilt)), Minus(One, Deadband)),
                        Times(KTilt, Abs(Minus(Error(c, Height),
                                               Error(est.cy, Height)))))
      BY <2>1, <2>2, <3>1, <3>2, LevelFollows
    <3>6. /\ Follows(pan, sp.pan, est.cx, Width, KPan)
          /\ Follows(tilt, sp.tilt, est.cy, Height, KTilt)
      BY <3>4, <3>5 DEF Follows
    <3> QED
      BY <1>3, <2>2, <3>2, <3>3, <3>6 DEF pan, tilt
  <2>5. CASE ~(Width <= 0 \/ Height <= 0)
    <3>1. Width > 0 /\ Height > 0
      BY <2>2, <2>5
    <3>2. /\ sp.pan = Steered(est.cx, Width, KPan, MaxPan)
          /\ sp.tilt = Steered(est.cy, Height, KTilt, MaxTilt)
      BY <1>1, <1>3, <2>5 DEF Setpoint
    <3>3. \A c : /\ pan(c) = Steered(c, Width, KPan, MaxPan)
                 /\ tilt(c) = Steered(c, Height, KTilt, MaxTilt)
      BY <1>3, <2>3, <2>5 DEF Setpoint
    <3> HIDE DEF pan, tilt
    <3>4. Leq(Abs(sp.pan), MaxPan) /\ Leq(Abs(sp.tilt), MaxTilt)
      BY <2>1, <2>2, <3>1, <3>2, SteeredFollows
    <3>5. ASSUME NEW c \in Coordinates(Width)
          PROVE  /\ Leq(est.cx, c) => Leq(sp.pan, pan(c))
                 /\ Leq(Times(Abs(Minus(pan(c), sp.pan)), Minus(One, Deadband)),
                        Times(KPan, Abs(Minus(Error(c, Width),
                                              Error(est.cx, Width)))))
      <4>1. c \in Fraction
        BY DEF Coordinates, Fraction
      <4>2. /\ Leq(est.cx, c) => Leq(Steered(est.cx, Width, KPan, MaxPan),
                                   Steered(c, Width, KPan, MaxPan))
            /\ Leq(Times(Abs(Minus(Steered(c, Width, KPan, MaxPan),
                                   Steered(est.cx, Width, KPan, MaxPan))),
                         Minus(One, Deadband)),
                   Times(KPan, Abs(Minus(Error(c, Width),
                                         Error(est.cx, Width)))))
        BY <2>1, <2>2, <3>1, <4>1, SteeredFollows
      <4> QED
        BY <3>2, <3>3, <4>2
    <3>6. ASSUME NEW c \in Coordinates(Height)
          PROVE  /\ Leq(est.cy, c) => Leq(sp.tilt, tilt(c))
                 /\ Leq(Times(Abs(Minus(tilt(c), sp.tilt)), Minus(One, Deadband)),
                        Times(KTilt, Abs(Minus(Error(c, Height),
                                               Error(est.cy, Height)))))
      <4>1. c \in Fraction
        BY DEF Coordinates, Fraction
      <4>2. /\ Leq(est.cy, c) => Leq(Steered(est.cy, Height, KTilt, MaxTilt),
                                   Steered(c, Height, KTilt, MaxTilt))
            /\ Leq(Times(Abs(Minus(Steered(c, Height, KTilt, MaxTilt),
                                   Steered(est.cy, Height, KTilt, MaxTilt))),
                         Minus(One, Deadband)),
                   Times(KTilt, Abs(Minus(Error(c, Height),
                                         Error(est.cy, Height)))))
        BY <2>1, <2>2, <3>1, <4>1, SteeredFollows
      <4> QED
        BY <3>2, <3>3, <4>2
    <3>7. /\ Follows(pan, sp.pan, est.cx, Width, KPan)
          /\ Follows(tilt, sp.tilt, est.cy, Height, KTilt)
      BY <3>5, <3>6 DEF Follows
    <3> QED
      BY <1>3, <3>4, <3>7 DEF pan, tilt
  <2> QED
    BY <2>4, <2>5
<1> QED
  BY <1>2, <1>3

-----------------------------------------------------------------------------
(* What is in hand has its type, and a setpoint is made of numbers: the    *)
(* 0.0 / 0.0 that a centroid of no pixels may be never gets past the gate. *)
THEOREM TypeCorrect == Spec => []TypeOK
<1>1. ASSUME IInv PROVE TypeOK
  <2>1. ASSUME stage = "steered" PROVE sp.pan # NaN /\ sp.tilt # NaN
    <3>1. est \in Estimates /\ sp = Setpoint(est)
      BY <1>1, <2>1 DEF IInv, InHand
    <3>2. CASE Lt(est.confidence, MinConfidence) \/ Width <= 0 \/ Height <= 0
      BY <3>1, <3>2 DEF Setpoint, Level, Zero, NaN
    <3>3. CASE ~(Lt(est.confidence, MinConfidence) \/ Width <= 0 \/ Height <= 0)
      <4>1. est.cx \in Fraction /\ est.cy \in Fraction
        BY <3>1, <3>3, SteersByNumbers
      <4>2. /\ Width \in Int /\ Height \in Int /\ Width > 0 /\ Height > 0
            /\ KPan \in Fraction /\ KTilt \in Fraction
            /\ MaxPan \in Fraction /\ MaxTilt \in Fraction
            /\ Leq(Zero, KPan) /\ Leq(Zero, KTilt)
            /\ Leq(Zero, MaxPan) /\ Leq(Zero, MaxTilt)
        BY <3>3, ControllerAssumption
      <4>3. /\ sp.pan = Steered(est.cx, Width, KPan, MaxPan)
            /\ sp.tilt = Steered(est.cy, Height, KTilt, MaxTilt)
        BY <3>1, <3>3 DEF Setpoint
      <4>4. /\ Steered(est.cx, Width, KPan, MaxPan) \in Fraction
            /\ Steered(est.cy, Height, KTilt, MaxTilt) \in Fraction
        BY <4>1, <4>2, SteeredFollows
      <4>5. NaN \notin Fraction
        BY DEF NaN, Fraction
      <4> QED
        BY <4>3, <4>4, <4>5
    <3> QED
      BY <3>2, <3>3
  <2> QED
    BY <1>1, <2>1 DEF IInv, InHand, TypeOK
<1> QED
  BY <1>1, InitIInv, StepIInv, PTL DEF Spec

(* The setpoint follows the centroid on both axes, without jumps, within   *)
(* the limits, for any gains, deadband, limits and size of the image.      *)
THEOREM SetpointIsSteady == Spec => []SetpointFollows
BY InitIInv, StepIInv, InHandFollows, PTL DEF Spec

(* Every estimate is of the picture its frame holds, and finds the disc    *)
(* that the simulated camera draws, for any frames, sizes, radius, noise,  *)
(* thresholds and least counts.                                            *)
THEOREM EstimateIsOfThePicture == Spec => EstimateOfThePicture
<1> DEFINE Seen == stage = "idle" /\ stage' = "estimated" =>
                     SeesThePicture(frame', est') /\ FindsTheSpot(frame', est')
<1>1. ASSUME IInv, [Next]_vars PROVE [Seen]_vars
  <2> SUFFICES ASSUME stage = "idle", stage' = "estimated"
               PROVE  SeesThePicture(frame', est') /\ FindsTheSpot(frame', est')
    OBVIOUS
  <2>1. PICK f \in Frames : OnFrame(f)
    BY <1>1 DEF Next, vars, SetThreshold, OnEstimate, OnSetpoint
  <2>2. /\ IsFrameValid(f) /\ frame' = f
        /\ est' = Estimate(f, threshold, minPixels)
    BY <2>1 DEF OnFrame
  <2>3. threshold \in Bytes /\ minPixels \in Nat
    BY <1>1, Settings DEF IInv
  <2>4. /\ SeesThePicture(f, Estimate(f, threshold, minPixels))
        /\ FindsTheSpot(f, Estimate(f, threshold, minPixels))
    BY <2>2, <2>3, PictureIsSeen, SpotIsFound
  <2> QED
    BY <2>2, <2>4
<1> QED
  BY <1>1, InitIInv, StepIInv, PTL DEF Spec, EstimateOfThePicture

(* A command that computeIK_() calls Ok solves one pose with every leg.    *)
THEOREM OkIsSolved == Spec => []OkSolvesEveryLeg
<1>1. IInv => OkSolvesEveryLeg
  BY DEF IInv
<1> QED
  BY <1>1, InitIInv, StepIInv, PTL DEF Spec

-----------------------------------------------------------------------------
(* One step of the kinematics takes each leg to the nearest of the         *)
(* solutions that point outward, if there is one.                          *)
LEMMA BranchStep ==
  ASSUME KinematicsTypeOK, NEW legPoses \in [Legs -> Poses],
         Solve(legPoses), NEW leg \in Legs,
         NEW branch \in DOMAIN legPoses[leg],
         ~Inward(WrapAngle(legPoses[leg][branch]))
  PROVE  /\ qPrev'[leg] \in {WrapAngle(legPoses[leg][i]) :
                              i \in DOMAIN legPoses[leg]}
         /\ ~Inward(qPrev'[leg])
         /\ Distance(qPrev'[leg], qPrev[leg])
              <= Distance(WrapAngle(legPoses[leg][branch]), qPrev[leg])
<1> DEFINE p == legPoses[leg]
           m == MechanismAngle(p, qPrev[leg])
<1>1. p \in Poses /\ qPrev[leg] \in Angle
  BY DEF KinematicsTypeOK
<1>2. p # Unsolvable
  BY DEF Unsolvable
<1>3. p \in Int \X Int
  BY <1>1, <1>2, PosesAssumption
<1>4. /\ DOMAIN p = {1, 2} /\ p[1] \in Int /\ p[2] \in Int
      /\ p = <<p[1], p[2]>>
  BY <1>3
<1>5. qPrev'[leg] = m
  BY <1>2 DEF Solve
<1>6. m \in {WrapAngle(p[1]), WrapAngle(p[2])}
  BY <1>1, <1>2, LegSolved
<1>7. WrapAngle(p[branch]) \in {WrapAngle(p[1]), WrapAngle(p[2])}
  BY <1>4
<1>8. /\ ~Inward(m)
      /\ Distance(m, qPrev[leg]) <= Distance(WrapAngle(p[branch]), qPrev[leg])
  BY <1>1, <1>4, <1>7, AngleOutward
<1> QED
  BY <1>4, <1>5, <1>6, <1>8

(* A horn points outward wherever a leg has such a solution, and takes the *)
(* nearest, for any legs, poses and history.                               *)
THEOREM BranchIsNearest == Spec => NearestOutwardBranch
<1> DEFINE Solutions(leg) ==
             {WrapAngle(pose'[leg][i]) : i \in DOMAIN pose'[leg]}
           Outward(leg) == {q \in Solutions(leg) : ~Inward(q)}
           Nearest ==
             cmd' # cmd => \A leg \in Legs :
               geometryValid /\ Outward(leg) # {} =>
                 /\ qPrev'[leg] \in Outward(leg)
                 /\ \A q \in Outward(leg) :
                      Distance(qPrev'[leg], qPrev[leg]) <= Distance(q, qPrev[leg])
<1>1. ASSUME IInv, [Next]_vars PROVE [Nearest]_vars
  <2> SUFFICES ASSUME cmd' # cmd, NEW leg \in Legs,
                      geometryValid, Outward(leg) # {}
               PROVE  /\ qPrev'[leg] \in Outward(leg)
                      /\ \A q \in Outward(leg) :
                           Distance(qPrev'[leg], qPrev[leg])
                             <= Distance(q, qPrev[leg])
    OBVIOUS
  <2>1. PICK legPoses \in [Legs -> Poses] : OnSetpoint(legPoses)
    BY <1>1 DEF Next, vars, SetThreshold, OnFrame, OnEstimate, kinematicsVars
  <2>2. Solve(legPoses) /\ pose' = legPoses
    BY <2>1 DEF OnSetpoint, ComputeIK
  <2>3. KinematicsTypeOK
    BY <1>1 DEF IInv
  <2>4. ASSUME NEW q \in Outward(leg)
        PROVE  /\ qPrev'[leg] \in Outward(leg)
               /\ Distance(qPrev'[leg], qPrev[leg]) <= Distance(q, qPrev[leg])
    <3>1. PICK branch \in DOMAIN legPoses[leg] :
            q = WrapAngle(legPoses[leg][branch])
      BY <2>2
    <3>2. ~Inward(q)
      OBVIOUS
    <3>3. /\ qPrev'[leg] \in {WrapAngle(legPoses[leg][i]) :
                               i \in DOMAIN legPoses[leg]}
          /\ ~Inward(qPrev'[leg])
          /\ Distance(qPrev'[leg], qPrev[leg]) <= Distance(q, qPrev[leg])
      BY <2>2, <2>3, <3>1, <3>2, BranchStep
    <3> QED
      BY <2>2, <3>3
  <2> QED
    BY <2>4
<1> QED
  BY <1>1, InitIInv, StepIInv, PTL DEF Spec, NearestOutwardBranch
=============================================================================
